---- MODULE Spec2Model ----
(***************************************************************************)
(* Credential lifecycle (ApiKeyService) and event ingestion / aggregation  *)
(* (EventService) of the analytics API, over one PostgreSQL store running  *)
(* at READ COMMITTED.  Every SQL statement is one step; a statement that   *)
(* has to wait for a row lock or for an index entry of an open transaction *)
(* is disabled until that transaction ends.                                *)
(***************************************************************************)
EXTENDS Integers, Sequences, FiniteSets, TLC

VARIABLES
  now,        \* NOW(): the store's clock, in ticks
  schema,     \* which DDL created the tables: "init.sql" or "tests/setup.js"
  apps,       \* committed rows of table apps
  api_keys,   \* committed rows of table api_keys
  nextAppId,  \* gen_random_uuid() for apps.id: the next fresh id
  nextKey,    \* nanoid(): the index of the next fresh random key
  tx,         \* per client: the request it is serving and its open transaction
  lastUsedQ,  \* dispatched, not yet executed last_used_at updates (key ids)
  validations,\* how many validateApiKey calls have resolved a key
  revoked,    \* history: the keys revokeApiKey has revoked
  lastOp,     \* history: the step taken last and what it returned
  events,     \* rows of table events
  event_summaries, \* rows of table event_summaries
  tasks,      \* the updateEventSummary invocations in flight
  quiet,      \* history: the summary keys recomputed since the last ingestion
  failed      \* history: the summary keys whose latest invocation to end failed

\* the variables of EventService
evVars == <<events, event_summaries, tasks, quiet, failed>>

vars == <<now, schema, apps, api_keys, nextAppId, nextKey, tx, lastUsedQ, validations, revoked, lastOp, evVars>>

----------------------------------------------------------------------------
(* Bounds of the model *)

NumClients == 2
MaxApps == 2
MaxKeys == 3
MaxTime == 1
\* length of INTERVAL '1 year' in clock ticks
YearTicks == 1
\* validateApiKey calls that resolve a key (each dispatches a last_used_at update)
MaxValidations == 1
\* events stored, and updateEventSummary invocations in flight at a time
MaxEvents == 2
MaxTasks == 2
MaxMaskLen == 18
MaxUserEvents == 12

(* Program constants *)

NanoidSize == 48
PrefixLength == 15
RevokeStars == 27
KeyPrefixWidthInitSql == 20
KeyPrefixWidthTestSetup == 100

Clients == 1..NumClients

\* SQL NULL / JS null / undefined: the empty tuple; a present value v is <<v>>
None == <<>>
Some(v) == <<v>>

Users == {"u1", "u2"}
\* registration payloads (app_name, app_url, user_id); the URLs stand for "x.com",
\* "X.com " (upper case, trailing blank) and "y.com"
RegisterInputs ==
  { <<"App1", <<"x">>, "u1">>, <<"App1", <<"X", " ">>, "u1">>,
    <<"App2", <<"y">>, "u1">>, <<"App2", <<"x">>, "u2">> }

----------------------------------------------------------------------------
(* ApiKeyUtils *)

Repeat(c, n) == [i \in 1..n |-> c]

BodyChar(i) == SubSeq(<<"1", "2", "3", "4", "5", "6", "7", "8", "9">>, ((i - 1) % 9) + 1, ((i - 1) % 9) + 1)[1]

\* the i-th key nanoid() draws: "sbx_" and 48 alphanumeric characters
generateApiKey(i) == <<"s", "b", "x", "_">> \o Repeat(BodyChar(i), NanoidSize)

\* a well-formed key that was never generated ("sbx_0")
FakeKey == <<"s", "b", "x", "_", "0">>

\* SHA-256 hex digest: deterministic, and injective on the keys in play
hashApiKey(apiKey) == <<"sha256">> \o apiKey

Min(a, b) == IF a < b THEN a ELSE b

extractApiKeyPrefix(apiKey) == SubSeq(apiKey, 1, Min(PrefixLength, Len(apiKey)))

\* a mask of a fixed number of stars after the prefix
MaskFixedStars(apiKey) == extractApiKeyPrefix(apiKey) \o Repeat("*", 3)

maskApiKey(apiKey) ==
  LET prefix == extractApiKeyPrefix(apiKey)
      maskLength == Len(apiKey) - Len(prefix)
  IN  prefix \o Repeat("*", maskLength)

----------------------------------------------------------------------------
(* String helpers of registerApp *)

IsBlank(c) == c = " "

RECURSIVE TrimLeft(_)
TrimLeft(s) == IF s # <<>> /\ IsBlank(Head(s)) THEN TrimLeft(Tail(s)) ELSE s

RECURSIVE TrimRight(_)
TrimRight(s) ==
  IF s # <<>> /\ IsBlank(s[Len(s)]) THEN TrimRight(SubSeq(s, 1, Len(s) - 1)) ELSE s

\* a url used as it was sent
NoTrim(s) == s

trim(s) == TrimRight(TrimLeft(s))

LowerChar(c) == CASE c = "X" -> "x" [] c = "Y" -> "y" [] OTHER -> c

toLowerCase(s) == [i \in 1..Len(s) |-> LowerChar(s[i])]

----------------------------------------------------------------------------
(* The persisted layout *)

\* api_keys.key_prefix is VARCHAR(20) in init.sql and VARCHAR(100) in the tests' DDL
KeyPrefixWidth == IF schema = "init.sql" THEN KeyPrefixWidthInitSql ELSE KeyPrefixWidthTestSetup

AppRow(id, appName, appUrl, userId) ==
  [id |-> id, app_name |-> appName, app_url |-> appUrl, user_id |-> userId, created_at |-> now]

\* INSERT INTO api_keys (app_id, key_hash, key_prefix, expires_at): the other columns default
KeyRow(id, appId, keyHash, keyPrefix) ==
  [id |-> id, app_id |-> appId, key_hash |-> keyHash, key_prefix |-> keyPrefix,
   is_active |-> TRUE, last_used_at |-> None, expires_at |-> Some(now + YearTicks),
   created_at |-> now, revoked_at |-> None]

IdleTx ==
  [pc |-> "idle", op |-> "none", appName |-> "", appUrl |-> <<>>, userId |-> "",
   appId |-> 0, apiKey |-> <<>>, cand |-> {}, deact |-> {}, insApps |-> {},
   insKeys |-> {}, err |-> "", began |-> 0, before |-> {}, client |-> <<>>]

\* what the last step returned to its caller: op, whether it succeeded, the message
\* of the Error it threw, the key and app it was about (recorded on success, and
\* when a revocation rejects a key revoked before), the value it returned, and for
\* a rotation the keys that were active when it began; for registerApp and
\* regenerateApiKey also the calls the invocation made on its pool client
NoOp ==
  [op |-> "init", ok |-> TRUE, err |-> "", key |-> <<>>, app |-> 0, res |-> None, pre |-> {},
   client |-> <<>>]

Done(op, key, app, res, pre) ==
  [op |-> op, ok |-> TRUE, err |-> "", key |-> key, app |-> app, res |-> res, pre |-> pre,
   client |-> <<>>]

Failed(op, err) ==
  [op |-> op, ok |-> FALSE, err |-> err, key |-> <<>>, app |-> 0, res |-> None, pre |-> {},
   client |-> <<>>]

\* a step that returns nothing to a caller
Internal == [NoOp EXCEPT !.op = "step"]

\* the row lock an open transaction holds on an api_keys row it has updated
LockedByOther(id, p) == \E q \in Clients \ {p} : \E d \in tx[q].deact : d.id = id

\* a DELETE of the rows in ids in place of the UPDATE
DeactivateDeletes(rows, ids, at) == { r \in rows : r.id \notin ids }

\* the same UPDATE without revoked_at = NOW()
DeactivateNoRevokedAt(rows, ids, at) ==
  { IF r.id \in ids THEN [r EXCEPT !.is_active = FALSE] ELSE r : r \in rows }

\* UPDATE api_keys SET is_active = false, revoked_at = NOW() on the rows in ids
Deactivate(rows, ids, at) ==
  { IF r.id \in ids THEN [r EXCEPT !.is_active = FALSE, !.revoked_at = Some(at)] ELSE r : r \in rows }

----------------------------------------------------------------------------
(* EventService: values and queries *)

Slots == 1..MaxTasks

\* an ISO 8601 timestamp as a caller writes it: the wall-clock reading in hours
\* since 1970-01-01T00:00 and the zone offset in hours ("Z" is 0, "-05:00" is -5)
Iso(wall, off) == [wall |-> wall, off |-> off]

\* new Date(timestamp): the instant the string denotes, in hours since the epoch
NewDate(timestamp) == timestamp.wall - timestamp.off

\* toISOString().split("T")[0]: the UTC calendar day of an instant, as a day number
ToISODate(instant) == instant \div 24

\* a text parameter stored into a TIMESTAMP (without time zone) column: the zone
\* offset is ignored and the wall-clock reading is kept
TimestampIn(timestamp) == timestamp.wall

\* DATE(timestamp) of a stored value
DATE(stored) == stored \div 24

\* the bodies validateEvent lets through to the controller (app_id comes from the
\* authenticated key): event, device, timestamp and user_id, each of the last
\* three possibly absent
EventInputs ==
  { [app_id |-> 1, event |-> "click", device |-> Some("mobile"), timestamp |-> Some(Iso(10, 0)), user_id |-> Some("u1")],
    [app_id |-> 1, event |-> "click", device |-> None, timestamp |-> Some(Iso(23, -5)), user_id |-> Some("u2")],
    [app_id |-> 2, event |-> "click", device |-> Some("desktop"), timestamp |-> Some(Iso(10, 0)), user_id |-> None],
    [app_id |-> 1, event |-> "view", device |-> Some("desktop"), timestamp |-> None, user_id |-> None] }

\* the arguments of a direct updateEventSummary(appId, eventType, timestamp)
RecomputeInputs ==
  { <<1, "click", Iso(10, 0)>> }

\* INSERT INTO events: the columns the aggregation reads, the zone the caller
\* wrote (history: the column does not keep it), and the generated id
EventRow(id, appId, e) ==
  [id |-> id, app_id |-> appId, event_type |-> e.event, device |-> e.device,
   timestamp |-> TimestampIn(e.timestamp[1]), user_id |-> e.user_id,
   zone |-> e.timestamp[1].off]

\* the same WHERE clause without app_id = $1
StatsRowsAllApps(appId, eventType, date) ==
  { e \in events : e.event_type = eventType /\ DATE(e.timestamp) = date }

\* WHERE app_id = $1 AND event_type = $2 AND DATE(timestamp) = $3
StatsRows(appId, eventType, date) ==
  { e \in events : e.app_id = appId /\ e.event_type = eventType /\ DATE(e.timestamp) = date }

COALESCE(v, dflt) == IF v = None THEN dflt ELSE v[1]

\* device_stats without COALESCE: the group of NULL devices gets no bucket
DeviceDataNoCoalesce(rows) ==
  LET groups == { e.device : e \in rows } \ {None}
  IN  [k \in { g[1] : g \in groups } |-> Cardinality({ e \in rows : e.device = Some(k) })]

\* device_stats: GROUP BY device, then jsonb_object_agg(COALESCE(device, 'unknown'),
\* device_count); of two groups under one name the document keeps one
DeviceData(rows) ==
  LET groups == { e.device : e \in rows }
      name(g) == COALESCE(g, "unknown")
  IN  [k \in { name(g) : g \in groups } |->
         LET g == CHOOSE x \in groups : name(x) = k
         IN  Cardinality({ e \in rows : e.device = g })]

\* the row the stats query returns for a key
Stats(appId, eventType, date) ==
  LET rows == StatsRows(appId, eventType, date)
  IN  [total_count |-> Cardinality(rows),
       unique_users |-> Cardinality({ e.user_id[1] : e \in { x \in rows : x.user_id # None } }),
       device_data |-> DeviceData(rows)]

SummaryKey(r) == <<r.app_id, r.event_type, r.date>>

SummaryRows(key) == { r \in event_summaries : SummaryKey(r) = key }

\* gen_random_uuid() for event_summaries.id: a value no row has, named by the key
\* and the number of rows the key has
FreshId(rows, key) == <<key, Cardinality({ r \in rows : SummaryKey(r) = key }) + 1>>

SummaryRow(id, key, stats, at) ==
  [id |-> id, app_id |-> key[1], event_type |-> key[2], date |-> key[3],
   total_count |-> stats.total_count, unique_users |-> stats.unique_users,
   device_data |-> stats.device_data, created_at |-> at, updated_at |-> at]

\* the same INSERT on a table without UNIQUE(app_id, event_type, date)
InsertSummary(rows, key, stats, at) ==
  rows \cup { SummaryRow(FreshId(rows, key), key, stats, at) }

\* the same INSERT with ON CONFLICT DO NOTHING
UpsertDoNothing(rows, key, stats, at) ==
  IF \E r \in rows : SummaryKey(r) = key THEN rows
  ELSE rows \cup { SummaryRow(FreshId(rows, key), key, stats, at) }

\* the same INSERT as a replacement of the row: DELETE, then INSERT of a new row
UpsertReplace(rows, key, stats, at) ==
  { r \in rows : SummaryKey(r) # key } \cup { SummaryRow(FreshId(rows, key), key, stats, at) }

\* the same upsert as an increment: the triggering event is added to the row's
\* total_count instead of the recomputed count replacing it
UpsertIncrement(rows, key, stats, at) ==
  IF \E r \in rows : SummaryKey(r) = key
    THEN { IF SummaryKey(r) = key
             THEN [r EXCEPT !.total_count = r.total_count + 1, !.unique_users = stats.unique_users,
                            !.device_data = stats.device_data, !.updated_at = at]
             ELSE r : r \in rows }
    ELSE rows \cup { SummaryRow(FreshId(rows, key), key, [stats EXCEPT !.total_count = 1], at) }

\* INSERT INTO event_summaries ... ON CONFLICT (app_id, event_type, date) DO UPDATE
\* SET total_count, unique_users, device_data, updated_at = NOW()
Upsert(rows, key, stats, at) ==
  IF \E r \in rows : SummaryKey(r) = key
    THEN { IF SummaryKey(r) = key
             THEN [r EXCEPT !.total_count = stats.total_count, !.unique_users = stats.unique_users,
                            !.device_data = stats.device_data, !.updated_at = at]
             ELSE r : r \in rows }
    ELSE rows \cup { SummaryRow(FreshId(rows, key), key, stats, at) }

\* an updateEventSummary invocation: where it is, its key, the stats it has read,
\* and history: alone (nothing was ingested since it began), peers (another
\* invocation for its key was in flight with it), first (its key had no row when
\* it began), sequel (when it began, an invocation for its key had completed with
\* nothing ingested since that one began), heals (when it began, the latest
\* invocation for its key to end had failed)
IdleTask ==
  [pc |-> "idle", key |-> <<0, "", 0>>, stats |-> None,
   alone |-> TRUE, peers |-> FALSE, first |-> FALSE, sequel |-> FALSE, heals |-> FALSE]

\* the same with the date taken from the value the events column stores
NewTaskStoredDay(appId, eventType, timestamp) ==
  LET key == <<appId, eventType, DATE(TimestampIn(timestamp))>>
  IN  [IdleTask EXCEPT !.pc = "stats", !.key = key,
                       !.peers = \E j \in Slots : tasks[j].pc # "idle" /\ tasks[j].key = key,
                       !.first = SummaryRows(key) = {},
                       !.sequel = key \in quiet,
                       !.heals = key \in failed]

\* the first statements of updateEventSummary: the key's date is the UTC day of
\* new Date(timestamp)
NewTask(appId, eventType, timestamp) ==
  LET key == <<appId, eventType, ToISODate(NewDate(timestamp))>>
  IN  [IdleTask EXCEPT !.pc = "stats", !.key = key,
                       !.peers = \E j \in Slots : tasks[j].pc # "idle" /\ tasks[j].key = key,
                       !.first = SummaryRows(key) = {},
                       !.sequel = key \in quiet,
                       !.heals = key \in failed]

\* an invocation takes the first free slot (free slots are alike)
FreeSlot(i) == tasks[i].pc = "idle" /\ \A j \in Slots : j < i => tasks[j].pc # "idle"

\* the invocations in flight once a new one for key has joined them in slot i
Join(ts, i, task) ==
  [j \in Slots |-> IF j = i THEN task
                   ELSE IF ts[j].pc # "idle" /\ ts[j].key = task.key THEN [ts[j] EXCEPT !.peers = TRUE]
                   ELSE ts[j]]

----------------------------------------------------------------------------
Init ==
  /\ now = 0
  /\ schema \in {"init.sql", "tests/setup.js"}
  /\ apps = {}
  /\ api_keys = {}
  /\ nextAppId = 1
  /\ nextKey = 1
  /\ tx = [p \in Clients |-> IdleTx]
  /\ lastUsedQ = {}
  /\ validations = 0
  /\ revoked = {}
  /\ lastOp = NoOp
  /\ events = {}
  /\ event_summaries = {}
  /\ tasks = [i \in Slots |-> IdleTask]
  /\ quiet = {}
  /\ failed = {}

Tick ==
  /\ now < MaxTime
  /\ now' = now + 1
  /\ lastOp' = Internal
  /\ UNCHANGED <<schema, apps, api_keys, nextAppId, nextKey, tx, lastUsedQ, validations, revoked, evVars>>

----------------------------------------------------------------------------
(* EventService: the queries of the query service, as functions of the events table *)

\* FILTER (WHERE rn <= 10) of getUserStats, and the default limit of getRecentEvents
RecentLimit == 10
DefaultLimit == 100

\* the same range with AND timestamp < $n as its upper bound
InRangeExclusive(ts, startDate, endDate) ==
  /\ startDate = None \/ ts >= TimestampIn(startDate[1])
  /\ endDate = None \/ ts < TimestampIn(endDate[1])

\* AND timestamp >= $n and AND timestamp <= $n, each appended when its bound is
\* given; the bound is text compared with the TIMESTAMP column
InRange(ts, startDate, endDate) ==
  /\ startDate = None \/ ts >= TimestampIn(startDate[1])
  /\ endDate = None \/ ts <= TimestampIn(endDate[1])

\* event_data: FROM events WHERE app_id = $1, AND event_type = $2 when eventType
\* is given, and the range
EventData(rows, appId, eventType, startDate, endDate) ==
  { e \in rows : /\ e.app_id = appId
                 /\ eventType = None \/ e.event_type = eventType[1]
                 /\ InRange(e.timestamp, startDate, endDate) }

\* COUNT(DISTINCT user_id) FILTER (WHERE user_id IS NOT NULL)
UniqueUsers(rows) == Cardinality({ e.user_id[1] : e \in { x \in rows : x.user_id # None } })

\* the rows of getEventSummary's query: one per event_type of event_data, the
\* device_data subquery being over all of event_data
EventSummaryRows(rows, appId, eventType, startDate, endDate) ==
  LET data == EventData(rows, appId, eventType, startDate, endDate)
  IN  { [event_type |-> t,
         count |-> Cardinality({ e \in data : e.event_type = t }),
         unique_users |-> UniqueUsers({ e \in data : e.event_type = t }),
         device_data |-> DeviceData(data)] : t \in { e.event_type : e \in data } }

\* ORDER BY timestamp DESC: every order the rows can come in (rows of one
\* timestamp in any order)
RECURSIVE ByTimestampDesc(_)
ByTimestampDesc(S) ==
  IF S = {} THEN { <<>> }
  ELSE UNION { { <<m>> \o t : t \in ByTimestampDesc(S \ {m}) } :
                 m \in { x \in S : \A y \in S : y.timestamp <= x.timestamp } }

\* the whole list in place of its first n
TopAll(seq, n) == seq

\* the first n of a list: rn <= n, LIMIT n
Top(seq, n) == SubSeq(seq, 1, Min(n, Len(seq)))

Range(seq) == { seq[i] : i \in 1..Len(seq) }

\* jsonb_build_object('event_type', event_type, 'timestamp', timestamp, 'url', url)
RecentObject(e) == [event_type |-> e.event_type, timestamp |-> e.timestamp]

\* the row getUserStats's query can return, none when the user has no event of
\* the app: rn numbers the rows newest first, and recent_events aggregates the
\* rows with rn <= 10 newest first
UserStatsResults(rows, appId, userId) ==
  LET sub == { e \in rows : e.app_id = appId /\ e.user_id = Some(userId) }
      times == { e.timestamp : e \in sub }
  IN  IF sub = {} THEN {}
      ELSE { [user_id |-> userId,
              total_events |-> Cardinality(sub),
              device_details |-> DeviceData(sub),
              recent_events |-> [i \in 1..Len(o) |-> RecentObject(o[i])],
              first_seen |-> CHOOSE t \in times : \A u \in times : t <= u,
              last_seen |-> CHOOSE t \in times : \A u \in times : u <= t] :
               o \in UNION { ByTimestampDesc(Range(Top(w, RecentLimit))) : w \in ByTimestampDesc(sub) } }

\* SELECT id, event_type, url, device, timestamp, user_id, session_id
RecentRow(e) ==
  [id |-> e.id, event_type |-> e.event_type, device |-> e.device,
   timestamp |-> e.timestamp, user_id |-> e.user_id]

\* the lists getRecentEvents can return: WHERE app_id = $1 ORDER BY timestamp DESC LIMIT $2
RecentEventsResults(rows, appId, limit) ==
  { [i \in 1..Len(Top(w, limit)) |-> RecentRow(w[i])] :
      w \in ByTimestampDesc({ e \in rows : e.app_id = appId }) }

\* the groups of getEventCountsByType: GROUP BY event_type over the app's events
\* in the range
CountRows(rows, appId, startDate, endDate) ==
  LET data == EventData(rows, appId, None, startDate, endDate)
  IN  { [event_type |-> t,
         count |-> Cardinality({ e \in data : e.event_type = t }),
         unique_users |-> UniqueUsers({ e \in data : e.event_type = t })] :
          t \in { e.event_type : e \in data } }

\* ORDER BY count ASC
RECURSIVE ByCountAsc(_)
ByCountAsc(S) ==
  IF S = {} THEN { <<>> }
  ELSE UNION { { <<m>> \o t : t \in ByCountAsc(S \ {m}) } :
                 m \in { x \in S : \A y \in S : x.count <= y.count } }

\* ORDER BY count DESC: every order the groups can come in
RECURSIVE ByCountDesc(_)
ByCountDesc(S) ==
  IF S = {} THEN { <<>> }
  ELSE UNION { { <<m>> \o t : t \in ByCountDesc(S \ {m}) } :
                 m \in { x \in S : \A y \in S : y.count <= x.count } }

----------------------------------------------------------------------------
(* Statement-level helpers *)

\* the same INSERT on a table without idx_unique_active_key_per_app
InsertKeyOutcomeNoIndex(p, appId, keyPrefix) ==
  IF Len(keyPrefix) > KeyPrefixWidth THEN "too_long" ELSE "ok"

\* the outcome of INSERT INTO api_keys of an active row for appId in p's transaction:
\* the value is coerced to VARCHAR(n) first, then idx_unique_active_key_per_app is
\* probed, which waits for an open transaction that inserted or deactivated an entry
InsertKeyOutcome(p, appId, keyPrefix) ==
  LET live == { r \in api_keys : r.app_id = appId /\ r.is_active
                                 /\ ~ \E d \in tx[p].deact : d.id = r.id }
  IN  IF Len(keyPrefix) > KeyPrefixWidth THEN "too_long"
      ELSE IF \E q \in Clients \ {p} : \E r \in tx[q].insKeys : r.app_id = appId /\ r.is_active
        THEN "wait"
      ELSE IF \E r \in live : LockedByOther(r.id, p) THEN "wait"
      ELSE IF live # {} THEN "unique_violation"
      ELSE "ok"

\* the same INSERT on an apps table without UNIQUE(user_id, app_url)
InsertAppOutcomeNoUnique(p, appUrl, userId) == "ok"

\* the outcome of INSERT INTO apps under UNIQUE(user_id, app_url)
InsertAppOutcome(p, appUrl, userId) ==
  IF \E a \in apps : a.user_id = userId /\ a.app_url = appUrl THEN "unique_violation"
  ELSE IF \E q \in Clients \ {p} : \E a \in tx[q].insApps : a.user_id = userId /\ a.app_url = appUrl
    THEN "wait"
  ELSE "ok"

InsertError(outcome) ==
  IF outcome = "too_long" THEN "value too long for type character varying"
  ELSE "duplicate key value violates unique constraint"

\* the rows an UPDATE ... WHERE app_id = $1 AND is_active = true finds in its snapshot
ActiveKeysOfApp(appId) == { r.id : r \in { k \in api_keys : k.app_id = appId /\ k.is_active } }

\* the same UPDATE with WHERE key_hash = $1 alone
KeysOfHash(keyHash) == { r.id : r \in { k \in api_keys : k.key_hash = keyHash } }

\* the rows an UPDATE ... WHERE key_hash = $1 AND is_active = true finds in its snapshot
ActiveKeysOfHash(keyHash) == { r.id : r \in { k \in api_keys : k.key_hash = keyHash /\ k.is_active } }

\* after a lock wait the WHERE clause is evaluated again on the row's newest version
StillActive(ids) == { r.id : r \in { k \in api_keys : k.id \in ids /\ k.is_active } }

\* a request is served by the first client that is free (free clients are alike)
Free(p) == tx[p].pc = "idle" /\ \A q \in Clients : q < p => tx[q].pc # "idle"

\* fresh ids and keys are capped: a request that will need one starts only while
\* one is left for it
NeedsApp(q) == tx[q].pc = "reg_insert_app"
NeedsKey(q) == tx[q].pc \in {"reg_insert_app", "reg_insert_key", "regen_update", "regen_lock", "regen_insert_key"}
AppIdLeft == nextAppId + Cardinality({ q \in Clients : NeedsApp(q) }) <= MaxApps
KeyLeft == nextKey + Cardinality({ q \in Clients : NeedsKey(q) }) <= MaxKeys

\* the calls an invocation makes on the client it checked out, in order:
\* const client = await pool.connect(), then client.query("BEGIN") in the try block
Begin == <<"connect", "BEGIN">>

\* await client.query("COMMIT"), the last statement of the try block
Commit(calls) == calls \o <<"COMMIT">>

\* a catch block that hands the client back itself, before finally does
CatchReleases(calls) == calls \o <<"ROLLBACK", "release">>

\* catch (error) { await client.query("ROLLBACK"); throw error; }
Catch(calls) == calls \o <<"ROLLBACK">>

\* finally { client.release(); }
Finally(calls) == calls \o <<"release">>

\* a statement of p's transaction throws: control is in the catch block, the
\* transaction still open with what it wrote and locked
Thrown(t, err) ==
  [IdleTx EXCEPT !.pc = "rollback", !.op = t.op, !.err = err, !.client = t.client,
                 !.appUrl = t.appUrl, !.userId = t.userId,
                 !.deact = t.deact, !.insApps = t.insApps, !.insKeys = t.insKeys]

----------------------------------------------------------------------------
(* ApiKeyService.registerApp *)

\* pool.connect, BEGIN, and the SELECT for an app of the same user and URL; when it
\* finds one the transaction has written nothing, and throw, ROLLBACK and release
\* are taken with it
RegisterBegin(p, appName, appUrl, userId) ==
  /\ Free(p)
  /\ LET normalizedUrl == toLowerCase(trim(appUrl))
         existingApp == { a \in apps : a.user_id = userId /\ toLowerCase(a.app_url) = normalizedUrl }
         t == [IdleTx EXCEPT !.op = "registerApp", !.appName = appName,
                             !.appUrl = normalizedUrl, !.userId = userId, !.began = now,
                             !.client = Begin]
     IN  \/ /\ existingApp # {}
            /\ lastOp' = [Failed("registerApp", "App with this URL already registered for this user")
                            EXCEPT !.client = Finally(Catch(t.client))]
            /\ UNCHANGED tx
         \/ /\ existingApp = {}
            /\ AppIdLeft /\ KeyLeft
            /\ tx' = [tx EXCEPT ![p] = [t EXCEPT !.pc = "reg_insert_app"]]
            /\ lastOp' = Internal
  /\ UNCHANGED <<now, schema, apps, api_keys, nextAppId, nextKey, lastUsedQ, validations, revoked, evVars>>

\* INSERT INTO apps ... RETURNING id
RegisterInsertApp(p) ==
  /\ tx[p].pc = "reg_insert_app"
  /\ LET outcome == InsertAppOutcome(p, tx[p].appUrl, tx[p].userId)
     IN  \/ /\ outcome = "unique_violation"
            /\ tx' = [tx EXCEPT ![p] = Thrown(tx[p], InsertError(outcome))]
            /\ UNCHANGED nextAppId
         \/ /\ outcome = "ok"
            /\ tx' = [tx EXCEPT ![p].pc = "reg_insert_key", ![p].appId = nextAppId,
                        ![p].appName = "", ![p].appUrl = <<>>, ![p].userId = "",
                        ![p].insApps = { [AppRow(nextAppId, tx[p].appName, tx[p].appUrl, tx[p].userId)
                                            EXCEPT !.created_at = tx[p].began] }]
            /\ nextAppId' = nextAppId + 1
  /\ lastOp' = Internal
  /\ UNCHANGED <<now, schema, apps, api_keys, nextKey, lastUsedQ, validations, revoked, evVars>>

\* generateApiKey, hashApiKey, maskApiKey, and the INSERT INTO api_keys
IssueKey(p, nextPc) ==
  /\ LET apiKey == generateApiKey(nextKey)
         keyHash == hashApiKey(apiKey)
         keyPrefix == maskApiKey(apiKey)
         outcome == InsertKeyOutcome(p, tx[p].appId, keyPrefix)
         row == [KeyRow(nextKey, tx[p].appId, keyHash, keyPrefix)
                   EXCEPT !.created_at = tx[p].began, !.expires_at = Some(tx[p].began + YearTicks)]
     IN  \/ /\ outcome \in {"too_long", "unique_violation"}
            /\ tx' = [tx EXCEPT ![p] = Thrown(tx[p], InsertError(outcome))]
         \/ /\ outcome = "ok"
            /\ tx' = [tx EXCEPT ![p].pc = nextPc, ![p].apiKey = apiKey, ![p].insKeys = {row}]
  /\ nextKey' = nextKey + 1

RegisterInsertKey(p) ==
  /\ tx[p].pc = "reg_insert_key"
  /\ IssueKey(p, "reg_commit")
  /\ lastOp' = Internal
  /\ UNCHANGED <<now, schema, apps, api_keys, nextAppId, lastUsedQ, validations, revoked, evVars>>

\* COMMIT, the return value, client.release
RegisterCommit(p) ==
  /\ tx[p].pc = "reg_commit"
  /\ apps' = apps \cup tx[p].insApps
  /\ api_keys' = api_keys \cup tx[p].insKeys
  /\ tx' = [tx EXCEPT ![p] = IdleTx]
  /\ lastOp' = [Done("registerApp", tx[p].apiKey, tx[p].appId, None, {})
                  EXCEPT !.client = Finally(Commit(tx[p].client))]
  /\ UNCHANGED <<now, schema, nextAppId, nextKey, lastUsedQ, validations, revoked, evVars>>

\* the same catch without ROLLBACK: what the transaction wrote to apps stays
RollbackKeepsApp(p) ==
  /\ tx[p].pc = "rollback"
  /\ apps' = apps \cup tx[p].insApps
  /\ tx' = [tx EXCEPT ![p] = IdleTx]
  /\ lastOp' = [Failed(tx[p].op, tx[p].err) EXCEPT !.client = Finally(Catch(tx[p].client))]
  /\ UNCHANGED <<now, schema, api_keys, nextAppId, nextKey, lastUsedQ, validations, revoked, evVars>>

\* the same catch with the transaction's UPDATE left in place
RollbackKeepsDeactivation(p) ==
  /\ tx[p].pc = "rollback"
  /\ api_keys' = Deactivate(api_keys, { d.id : d \in tx[p].deact }, tx[p].began)
  /\ tx' = [tx EXCEPT ![p] = IdleTx]
  /\ lastOp' = [Failed(tx[p].op, tx[p].err) EXCEPT !.client = Finally(Catch(tx[p].client))]
  /\ UNCHANGED <<now, schema, apps, nextAppId, nextKey, lastUsedQ, validations, revoked, evVars>>

\* catch: ROLLBACK, rethrow, client.release (registerApp and regenerateApiKey)
Rollback(p) ==
  /\ tx[p].pc = "rollback"
  /\ tx' = [tx EXCEPT ![p] = IdleTx]
  /\ lastOp' = [Failed(tx[p].op, tx[p].err) EXCEPT !.client = Finally(Catch(tx[p].client))]
  /\ UNCHANGED <<now, schema, apps, api_keys, nextAppId, nextKey, lastUsedQ, validations, revoked, evVars>>

----------------------------------------------------------------------------
(* ApiKeyService.regenerateApiKey *)

\* the same with SELECT id FROM apps WHERE id = $1 alone
RegenerateBeginAnyOwner(p, appId, userId) ==
  /\ Free(p)
  /\ LET appResult == { a \in apps : a.id = appId }
         t == [IdleTx EXCEPT !.op = "regenerateApiKey", !.appId = appId, !.userId = userId,
                             !.began = now, !.before = ActiveKeysOfApp(appId), !.client = Begin]
     IN  \/ /\ appResult = {}
            /\ lastOp' = [Failed("regenerateApiKey", "App not found or unauthorized")
                            EXCEPT !.app = appId, !.client = Finally(Catch(t.client))]
            /\ UNCHANGED tx
         \/ /\ appResult # {}
            /\ KeyLeft
            /\ tx' = [tx EXCEPT ![p] = [t EXCEPT !.pc = "regen_update", !.userId = ""]]
            /\ lastOp' = Internal
  /\ UNCHANGED <<now, schema, apps, api_keys, nextAppId, nextKey, lastUsedQ, validations, revoked, evVars>>

\* pool.connect, BEGIN, and the SELECT that verifies the app belongs to the user;
\* when it finds no row the transaction has written nothing, and throw, ROLLBACK
\* and release are taken with it (the result keeps which app was asked for)
RegenerateBegin(p, appId, userId) ==
  /\ Free(p)
  /\ LET appResult == { a \in apps : a.id = appId /\ a.user_id = userId }
         t == [IdleTx EXCEPT !.op = "regenerateApiKey", !.appId = appId, !.userId = userId,
                             !.began = now, !.before = ActiveKeysOfApp(appId), !.client = Begin]
     IN  \/ /\ appResult = {}
            /\ lastOp' = [Failed("regenerateApiKey", "App not found or unauthorized")
                            EXCEPT !.app = appId, !.client = Finally(Catch(t.client))]
            /\ UNCHANGED tx
         \/ /\ appResult # {}
            /\ KeyLeft
            /\ tx' = [tx EXCEPT ![p] = [t EXCEPT !.pc = "regen_update", !.userId = ""]]
            /\ lastOp' = Internal
  /\ UNCHANGED <<now, schema, apps, api_keys, nextAppId, nextKey, lastUsedQ, validations, revoked, evVars>>

\* UPDATE api_keys SET is_active = false, revoked_at = NOW() WHERE app_id = $1 AND is_active
RegenerateDeactivate(p) ==
  /\ tx[p].pc = "regen_update"
  /\ LET cand == ActiveKeysOfApp(tx[p].appId)
     IN  \/ /\ \E id \in cand : LockedByOther(id, p)
            /\ tx' = [tx EXCEPT ![p].pc = "regen_lock", ![p].cand = cand]
         \/ /\ ~ \E id \in cand : LockedByOther(id, p)
            /\ tx' = [tx EXCEPT ![p].pc = "regen_insert_key",
                        ![p].deact = { [id |-> id, at |-> tx[p].began] : id \in cand }]
  /\ lastOp' = Internal
  /\ UNCHANGED <<now, schema, apps, api_keys, nextAppId, nextKey, lastUsedQ, validations, revoked, evVars>>

\* the same UPDATE once the transactions that held its rows have ended
RegenerateDeactivateResume(p) ==
  /\ tx[p].pc = "regen_lock"
  /\ ~ \E id \in tx[p].cand : LockedByOther(id, p)
  /\ tx' = [tx EXCEPT ![p].pc = "regen_insert_key", ![p].cand = {},
              ![p].deact = { [id |-> id, at |-> tx[p].began] : id \in StillActive(tx[p].cand) }]
  /\ lastOp' = Internal
  /\ UNCHANGED <<now, schema, apps, api_keys, nextAppId, nextKey, lastUsedQ, validations, revoked, evVars>>

RegenerateInsertKey(p) ==
  /\ tx[p].pc = "regen_insert_key"
  /\ IssueKey(p, "regen_commit")
  /\ lastOp' = Internal
  /\ UNCHANGED <<now, schema, apps, api_keys, nextAppId, lastUsedQ, validations, revoked, evVars>>

\* COMMIT, the return value, client.release
RegenerateCommit(p) ==
  /\ tx[p].pc = "regen_commit"
  /\ api_keys' = LET ids == { d.id : d \in tx[p].deact }
                 IN  Deactivate(api_keys, ids, tx[p].began) \cup tx[p].insKeys
  /\ tx' = [tx EXCEPT ![p] = IdleTx]
  /\ lastOp' = [Done("regenerateApiKey", tx[p].apiKey, tx[p].appId, None, tx[p].before)
                  EXCEPT !.client = Finally(Commit(tx[p].client))]
  /\ UNCHANGED <<now, schema, apps, nextAppId, nextKey, lastUsedQ, validations, revoked, evVars>>

----------------------------------------------------------------------------
(* ApiKeyService.revokeApiKey *)

RevokeResult(ids) ==
  LET row == CHOOSE r \in api_keys : r.id \in ids
  IN  Some([app_id |-> row.app_id, key_prefix |-> row.key_prefix \o Repeat("*", RevokeStars)])

\* the UPDATE ... WHERE key_hash = $1 AND is_active = true RETURNING, on the rows ids
RevokeFinish(apiKey, ids) ==
  \/ /\ ids = {}
     /\ lastOp' = [Failed("revokeApiKey", "API key not found or already revoked")
                      EXCEPT !.key = IF apiKey \in revoked THEN apiKey ELSE <<>>]
     /\ UNCHANGED <<api_keys, revoked>>
  \/ /\ ids # {}
     /\ api_keys' = Deactivate(api_keys, ids, now)
     /\ revoked' = revoked \cup {apiKey}
     /\ lastOp' = Done("revokeApiKey", apiKey, 0, RevokeResult(ids), {})

revokeApiKey(p, apiKey) ==
  /\ Free(p)
  /\ LET cand == ActiveKeysOfHash(hashApiKey(apiKey))
     IN  \/ /\ \E id \in cand : LockedByOther(id, p)
            /\ tx' = [tx EXCEPT ![p] = [IdleTx EXCEPT !.pc = "revoke_lock", !.op = "revokeApiKey",
                                                     !.apiKey = apiKey, !.cand = cand]]
            /\ lastOp' = Internal
            /\ UNCHANGED <<api_keys, revoked>>
         \/ /\ ~ \E id \in cand : LockedByOther(id, p)
            /\ RevokeFinish(apiKey, cand)
            /\ UNCHANGED tx
  /\ UNCHANGED <<now, schema, apps, nextAppId, nextKey, lastUsedQ, validations, evVars>>

\* the same UPDATE once the transaction that held its row has ended
RevokeResume(p) ==
  /\ tx[p].pc = "revoke_lock"
  /\ ~ \E id \in tx[p].cand : LockedByOther(id, p)
  /\ RevokeFinish(tx[p].apiKey, StillActive(tx[p].cand))
  /\ tx' = [tx EXCEPT ![p] = IdleTx]
  /\ UNCHANGED <<now, schema, apps, nextAppId, nextKey, lastUsedQ, validations, evVars>>

----------------------------------------------------------------------------
(* ApiKeyService.getApiKeyByAppId *)

\* the same SELECT with WHERE ak.app_id = $1 alone
KeyQueryAnyState(appId) ==
  { [key_prefix |-> ak.key_prefix, is_active |-> ak.is_active, created_at |-> ak.created_at,
     expires_at |-> ak.expires_at, last_used_at |-> ak.last_used_at,
     app_name |-> a.app_name, app_url |-> a.app_url] :
      <<ak, a>> \in { j \in api_keys \X apps : j[1].app_id = j[2].id /\ j[1].app_id = appId } }

\* SELECT ... FROM api_keys ak JOIN apps a ON ak.app_id = a.id
\* WHERE ak.app_id = $1 AND ak.is_active = true
ActiveKeyQuery(appId) ==
  { [key_prefix |-> ak.key_prefix, is_active |-> ak.is_active, created_at |-> ak.created_at,
     expires_at |-> ak.expires_at, last_used_at |-> ak.last_used_at,
     app_name |-> a.app_name, app_url |-> a.app_url] :
      <<ak, a>> \in { j \in api_keys \X apps :
                        j[1].app_id = j[2].id /\ j[1].app_id = appId /\ j[1].is_active } }

\* ORDER BY ak.created_at DESC LIMIT 1: the rows that can come first
Latest(rows) == { r \in rows : \A o \in rows : o.created_at <= r.created_at }

\* the query, the throw when it returns no row, and the object returned otherwise
\* (the result keeps which app was asked for)
getApiKeyByAppId(appId) ==
  /\ LET rows == ActiveKeyQuery(appId)
     IN  \/ /\ rows = {}
            /\ lastOp' = [Failed("getApiKeyByAppId", "No active API key found for this app")
                             EXCEPT !.app = appId]
         \/ \E key \in Latest(rows) :
              lastOp' = Done("getApiKeyByAppId", <<>>, appId,
                             Some([app_id |-> appId, app_name |-> key.app_name, app_url |-> key.app_url,
                                   key_prefix |-> maskApiKey(key.key_prefix), is_active |-> key.is_active,
                                   created_at |-> key.created_at, expires_at |-> key.expires_at,
                                   last_used_at |-> key.last_used_at]), {})
  /\ UNCHANGED <<now, schema, apps, api_keys, nextAppId, nextKey, tx, lastUsedQ, validations, revoked, evVars>>

----------------------------------------------------------------------------
(* ApiKeyService.validateApiKey *)

\* the same SELECT without AND ak.expires_at > NOW()
ValidateQueryNoExpiry(keyHash) ==
  { [id |-> ak.id, app_id |-> ak.app_id, expires_at |-> ak.expires_at,
     app_name |-> a.app_name, app_url |-> a.app_url, user_id |-> a.user_id] :
      <<ak, a>> \in { j \in api_keys \X apps :
                        /\ j[1].app_id = j[2].id
                        /\ j[1].key_hash = keyHash
                        /\ j[1].is_active } }

\* the same SELECT without AND ak.is_active = true
ValidateQueryNoActive(keyHash) ==
  { [id |-> ak.id, app_id |-> ak.app_id, expires_at |-> ak.expires_at,
     app_name |-> a.app_name, app_url |-> a.app_url, user_id |-> a.user_id] :
      <<ak, a>> \in { j \in api_keys \X apps :
                        /\ j[1].app_id = j[2].id
                        /\ j[1].key_hash = keyHash
                        /\ j[1].expires_at # None
                        /\ j[1].expires_at[1] > now } }

\* SELECT ... FROM api_keys ak JOIN apps a ON ak.app_id = a.id
\* WHERE ak.key_hash = $1 AND ak.is_active = true AND ak.expires_at > NOW()
ValidateQuery(keyHash) ==
  { [id |-> ak.id, app_id |-> ak.app_id, expires_at |-> ak.expires_at,
     app_name |-> a.app_name, app_url |-> a.app_url, user_id |-> a.user_id] :
      <<ak, a>> \in { j \in api_keys \X apps :
                        /\ j[1].app_id = j[2].id
                        /\ j[1].key_hash = keyHash
                        /\ j[1].is_active
                        /\ j[1].expires_at # None
                        /\ j[1].expires_at[1] > now } }

validateApiKey(apiKey) ==
  /\ LET rows == ValidateQuery(hashApiKey(apiKey))
     IN  \/ /\ rows = {}
            /\ lastOp' = Done("validateApiKey", <<>>, 0, None, {})
            /\ UNCHANGED <<lastUsedQ, validations, revoked>>
         \/ /\ rows # {}
            /\ validations < MaxValidations
            /\ validations' = validations + 1
            /\ LET row == CHOOSE r \in rows : TRUE
               IN  /\ lastUsedQ' = lastUsedQ \cup {row.id}
                   /\ lastOp' = Done("validateApiKey", apiKey, row.app_id, Some(row), {})
  /\ UNCHANGED <<now, schema, apps, api_keys, nextAppId, nextKey, tx, revoked, evVars>>

\* the same UPDATE also renewing the key: expires_at = NOW() + INTERVAL '1 year'
LastUsedRenews(id) ==
  /\ id \in lastUsedQ
  /\ ~ LockedByOther(id, 0)
  /\ api_keys' = { IF r.id = id THEN [r EXCEPT !.last_used_at = Some(now), !.expires_at = Some(now + YearTicks)]
                    ELSE r : r \in api_keys }
  /\ lastUsedQ' = lastUsedQ \ {id}
  /\ lastOp' = Internal
  /\ UNCHANGED <<now, schema, apps, nextAppId, nextKey, tx, validations, revoked, evVars>>

\* the dispatched UPDATE api_keys SET last_used_at = NOW() WHERE id = $1
LastUsedUpdate(id) ==
  /\ id \in lastUsedQ
  /\ ~ LockedByOther(id, 0)
  /\ api_keys' = { IF r.id = id THEN [r EXCEPT !.last_used_at = Some(now)] ELSE r : r \in api_keys }
  /\ lastUsedQ' = lastUsedQ \ {id}
  /\ lastOp' = Internal
  /\ UNCHANGED <<now, schema, apps, nextAppId, nextKey, tx, validations, revoked, evVars>>

\* the same UPDATE failing: .catch logs the error and nothing else happens
LastUsedFail(id) ==
  /\ id \in lastUsedQ
  /\ lastUsedQ' = lastUsedQ \ {id}
  /\ lastOp' = Internal
  /\ UNCHANGED <<now, schema, apps, api_keys, nextAppId, nextKey, tx, validations, revoked, evVars>>

----------------------------------------------------------------------------
\* the keys a caller can present: every key generated so far, and one never generated
KeyInputs == { generateApiKey(i) : i \in 1..(nextKey - 1) } \cup {FakeKey}

\* the app ids a caller can present: every id handed out so far, and one that is no app's
AppIdInputs == 0..(nextAppId - 1)

\* no registerApp or regenerateApiKey transaction is open
NoOpenTransaction == \A q \in Clients : tx[q].op \notin {"registerApp", "regenerateApiKey"}

RegisterStep ==
  \/ \E p \in Clients : RegisterInsertApp(p)
  \/ \E p \in Clients : RegisterInsertKey(p)
  \/ \E p \in Clients : RegisterCommit(p)

RegenerateStep ==
  \/ \E p \in Clients : RegenerateDeactivate(p)
  \/ \E p \in Clients : RegenerateDeactivateResume(p)
  \/ \E p \in Clients : RegenerateInsertKey(p)
  \/ \E p \in Clients : RegenerateCommit(p)

\* the credential mutations, any number of them in flight together
NextKeys ==
  \/ Tick
  \/ \E p \in Clients, in \in RegisterInputs : RegisterBegin(p, in[1], in[2], in[3])
  \/ RegisterStep
  \/ \E p \in Clients, appId \in AppIdInputs, userId \in Users : RegenerateBegin(p, appId, userId)
  \/ RegenerateStep
  \/ \E p \in Clients : Rollback(p)
  \/ \E p \in Clients, apiKey \in KeyInputs : revokeApiKey(p, apiKey)
  \/ \E p \in Clients : RevokeResume(p)
  \/ \E appId \in AppIdInputs : getApiKeyByAppId(appId)

SpecKeys == Init /\ [][NextKeys]_vars

\* every credential operation, with one registerApp or regenerateApiKey transaction
\* open at a time
NextAuth ==
  \/ Tick
  \/ \E p \in Clients, in \in RegisterInputs :
       NoOpenTransaction /\ RegisterBegin(p, in[1], in[2], in[3])
  \/ RegisterStep
  \/ \E p \in Clients, appId \in AppIdInputs, userId \in Users :
       NoOpenTransaction /\ RegenerateBegin(p, appId, userId)
  \/ \E p \in Clients : RegenerateDeactivate(p)
  \/ \E p \in Clients : RegenerateInsertKey(p)
  \/ \E p \in Clients : RegenerateCommit(p)
  \/ \E p \in Clients : Rollback(p)
  \/ \E p \in Clients, apiKey \in KeyInputs : revokeApiKey(p, apiKey)
  \/ \E p \in Clients : RevokeResume(p)
  \/ \E apiKey \in KeyInputs : validateApiKey(apiKey)
  \/ \E id \in lastUsedQ : LastUsedUpdate(id)
  \/ \E id \in lastUsedQ : LastUsedFail(id)

SpecAuth == Init /\ [][NextAuth]_vars

----------------------------------------------------------------------------
(* regenerateApiKey on a registered app, the store failing at will *)

\* the store fails the INSERT INTO api_keys of a rotation for a reason of its own
\* (the key was generated before the statement ran); control is in the catch block
InsertKeyFault(p) ==
  /\ tx[p].pc = "regen_insert_key"
  /\ tx' = [tx EXCEPT ![p] = Thrown(tx[p], "store error")]
  /\ nextKey' = nextKey + 1
  /\ lastOp' = Internal
  /\ UNCHANGED <<now, schema, apps, api_keys, nextAppId, lastUsedQ, validations, revoked, evVars>>

\* one app has registered and holds its first key
InitRotate ==
  /\ now = 0
  /\ schema = "tests/setup.js"
  /\ apps = { AppRow(1, "App1", <<"x">>, "u1") }
  /\ api_keys = { KeyRow(1, 1, hashApiKey(generateApiKey(1)), maskApiKey(generateApiKey(1))) }
  /\ nextAppId = 2
  /\ nextKey = 2
  /\ tx = [p \in Clients |-> IdleTx]
  /\ lastUsedQ = {}
  /\ validations = 0
  /\ revoked = {}
  /\ lastOp = NoOp
  /\ events = {}
  /\ event_summaries = {}
  /\ tasks = [i \in Slots |-> IdleTask]
  /\ quiet = {}
  /\ failed = {}

NextRotate ==
  \/ Tick
  \/ \E p \in Clients, appId \in AppIdInputs, userId \in Users : RegenerateBegin(p, appId, userId)
  \/ RegenerateStep
  \/ \E p \in Clients : InsertKeyFault(p)
  \/ \E p \in Clients : Rollback(p)
  \/ \E p \in Clients, apiKey \in KeyInputs : revokeApiKey(p, apiKey)
  \/ \E p \in Clients : RevokeResume(p)

SpecRotate == InitRotate /\ [][NextRotate]_vars

----------------------------------------------------------------------------
(* EventService.collectEvent *)

\* what collectEvent resolves to: RETURNING id, app_id, event_type, timestamp
Collected(row) ==
  [op |-> "collectEvent", ok |-> TRUE, err |-> "",
   res |-> Some([id |-> row.id, app_id |-> row.app_id, event_type |-> row.event_type,
                 timestamp |-> row.timestamp])]

\* what collectEvent returns or throws; an absent timestamp is sent as NULL, which
\* the column's NOT NULL rejects, and catch rethrows "Failed to collect event"
CollectResult(appId, eventData) ==
  IF eventData.timestamp = None THEN Failed("collectEvent", "Failed to collect event")
  ELSE Collected(EventRow(Cardinality(events) + 1, appId, eventData))

\* the same with the new row taking the place of the stored ones
CollectEffectOverwrites(appId, eventData) ==
  \/ /\ eventData.timestamp = None
     /\ UNCHANGED evVars
  \/ /\ eventData.timestamp # None
     /\ Cardinality(events) < MaxEvents
     /\ \E i \in Slots :
          /\ FreeSlot(i)
          /\ events' = { EventRow(Cardinality(events) + 1, appId, eventData) }
          /\ tasks' = Join(tasks, i, NewTask(appId, eventData.event, eventData.timestamp[1]))
     /\ quiet' = {}
     /\ UNCHANGED <<event_summaries, failed>>

\* the INSERT INTO events and, once it has succeeded, the dispatch of
\* updateEventSummary, which is not awaited
CollectEffect(appId, eventData) ==
  \/ /\ eventData.timestamp = None
     /\ UNCHANGED evVars
  \/ /\ eventData.timestamp # None
     /\ Cardinality(events) < MaxEvents
     /\ \E i \in Slots :
          /\ FreeSlot(i)
          /\ LET row == EventRow(Cardinality(events) + 1, appId, eventData)
                 task == NewTask(appId, eventData.event, eventData.timestamp[1])
                 overtaken == [j \in Slots |-> IF tasks[j].pc = "idle" THEN tasks[j]
                                               ELSE [tasks[j] EXCEPT !.alone = FALSE]]
             IN  /\ events' = events \cup {row}
                 /\ tasks' = Join(overtaken, i, [task EXCEPT !.sequel = FALSE])
     /\ quiet' = {}
     /\ UNCHANGED <<event_summaries, failed>>

collectEvent(appId, eventData) ==
  /\ CollectEffect(appId, eventData)
  /\ lastOp' = CollectResult(appId, eventData)
  /\ UNCHANGED <<now, schema, apps, api_keys, nextAppId, nextKey, tx, lastUsedQ, validations, revoked>>

----------------------------------------------------------------------------
(* EventService.updateEventSummary *)

\* what a completed invocation did: its key and history, whether the upsert met a
\* row (DO UPDATE) or inserted one, and whether an invocation for the key that
\* began after the last ingestion had completed before it (over)
Recomputed(task, conflict, over) ==
  [op |-> "updateEventSummary", ok |-> TRUE, err |-> "", key |-> task.key,
   alone |-> task.alone, peers |-> task.peers, first |-> task.first,
   sequel |-> task.sequel, heals |-> task.heals, conflict |-> conflict, over |-> over]

\* a direct invocation: the date is computed and the stats query is issued
updateEventSummary(appId, eventType, timestamp) ==
  /\ \E i \in Slots :
       /\ FreeSlot(i)
       /\ tasks' = Join(tasks, i, NewTask(appId, eventType, timestamp))
  /\ lastOp' = Internal
  /\ UNCHANGED <<events, event_summaries, quiet, failed>>
  /\ UNCHANGED <<now, schema, apps, api_keys, nextAppId, nextKey, tx, lastUsedQ, validations, revoked>>

\* the stats query returns
StatsQuery(i) ==
  /\ tasks[i].pc = "stats"
  /\ tasks' = [tasks EXCEPT ![i].pc = "upsert",
                             ![i].stats = Some(Stats(tasks[i].key[1], tasks[i].key[2], tasks[i].key[3]))]
  /\ lastOp' = Internal
  /\ UNCHANGED <<events, event_summaries, quiet, failed>>
  /\ UNCHANGED <<now, schema, apps, api_keys, nextAppId, nextKey, tx, lastUsedQ, validations, revoked>>

\* the upsert runs and the invocation resolves
UpsertSummary(i) ==
  /\ tasks[i].pc = "upsert"
  /\ event_summaries' = Upsert(event_summaries, tasks[i].key, tasks[i].stats[1], now)
  /\ tasks' = [tasks EXCEPT ![i] = IdleTask]
  /\ quiet' = IF tasks[i].alone THEN quiet \cup {tasks[i].key} ELSE quiet \ {tasks[i].key}
  /\ failed' = failed \ {tasks[i].key}
  /\ lastOp' = Recomputed(tasks[i], SummaryRows(tasks[i].key) # {}, tasks[i].key \in quiet)
  /\ UNCHANGED events
  /\ UNCHANGED <<now, schema, apps, api_keys, nextAppId, nextKey, tx, lastUsedQ, validations, revoked>>

\* the same, with the failure undoing the ingestion that was counted last
SummaryFailUndoesInsert(i) ==
  /\ tasks[i].pc \in {"stats", "upsert"}
  /\ tasks' = [tasks EXCEPT ![i] = IdleTask]
  /\ lastOp' = Failed("updateEventSummary", "Error updating event summary")
  /\ events' = { e \in events : e.id # Cardinality(events) }
  /\ failed' = failed \cup {tasks[i].key}
  /\ UNCHANGED <<event_summaries, quiet>>
  /\ UNCHANGED <<now, schema, apps, api_keys, nextAppId, nextKey, tx, lastUsedQ, validations, revoked>>

\* the store fails the stats query or the upsert: catch logs the error and the
\* invocation resolves all the same
SummaryFail(i) ==
  /\ tasks[i].pc \in {"stats", "upsert"}
  /\ tasks' = [tasks EXCEPT ![i] = IdleTask]
  /\ lastOp' = Failed("updateEventSummary", "Error updating event summary")
  /\ failed' = failed \cup {tasks[i].key}
  /\ UNCHANGED <<events, event_summaries, quiet>>
  /\ UNCHANGED <<now, schema, apps, api_keys, nextAppId, nextKey, tx, lastUsedQ, validations, revoked>>

----------------------------------------------------------------------------
\* two tenants have registered; events are ingested and summaries recomputed
InitEvents ==
  /\ now = 0
  /\ schema = "tests/setup.js"
  /\ apps = { AppRow(1, "App1", <<"x">>, "u1"), AppRow(2, "App2", <<"x">>, "u2") }
  /\ api_keys = { KeyRow(i, i, hashApiKey(generateApiKey(i)), maskApiKey(generateApiKey(i))) : i \in 1..2 }
  /\ nextAppId = 3
  /\ nextKey = 3
  /\ tx = [p \in Clients |-> IdleTx]
  /\ lastUsedQ = {}
  /\ validations = 0
  /\ revoked = {}
  /\ lastOp = NoOp
  /\ events = {}
  /\ event_summaries = {}
  /\ tasks = [i \in Slots |-> IdleTask]
  /\ quiet = {}
  /\ failed = {}

NextEvents ==
  \/ Tick
  \/ \E eventData \in EventInputs : collectEvent(eventData.app_id, eventData)
  \/ \E in \in RecomputeInputs : updateEventSummary(in[1], in[2], in[3])
  \/ \E i \in Slots : StatsQuery(i)
  \/ \E i \in Slots : UpsertSummary(i)
  \/ \E i \in Slots : SummaryFail(i)

SpecEvents == InitEvents /\ [][NextEvents]_vars

----------------------------------------------------------------------------
(* POST /collect: authenticate, validateEvent, eventCollectController *)

\* the JSON bodies a client posts: one complete, which also names app 2 in a
\* field app_id, one without a timestamp, one whose device is none of the
\* accepted values
CollectBodies ==
  { [event |-> "click", device |-> Some("mobile"), timestamp |-> Some(Iso(10, 0)), user_id |-> Some("u1"),
     app_id |-> Some(2)],
    [event |-> "view", device |-> Some("desktop"), timestamp |-> None, user_id |-> None, app_id |-> None],
    [event |-> "click", device |-> Some("tv"), timestamp |-> Some(Iso(10, 0)), user_id |-> None,
     app_id |-> None] }

\* the x-api-key header a client sends: absent, or one of the keys it can present
HeaderInputs == {None} \cup { Some(k) : k \in KeyInputs }

\* res.status(status).json(...): the status, the error text and the data
Response(status, error, data) ==
  [op |-> "POST /collect", ok |-> status = 201, err |-> error, status |-> status, res |-> data]

\* validationResult(req).isEmpty() for the fields the bodies carry
validateEvent(body) ==
  /\ body.event # ""
  /\ body.device = None \/ body.device[1] \in {"mobile", "desktop", "tablet", "other"}

\* the controller's response to what collectEvent returned or threw
eventCollectController(result) ==
  IF result.ok
    THEN Response(201, "", Some([event_id |-> result.res[1].id,
                                 event_type |-> result.res[1].event_type,
                                 timestamp |-> result.res[1].timestamp]))
    ELSE Response(500, "Failed to collect event", None)

\* what authenticate does with the header: 401 when it is absent; otherwise
\* keyData = validateApiKey(apiKey), and reading keyData.app_id of the null an
\* unresolved key yields throws, which catch answers with 500
authenticate(apiKey) ==
  IF apiKey = None
    THEN [next |-> FALSE, keyData |-> None,
          response |-> Response(401, "API key is required. Please provide it in x-api-key header or Authorization Bearer token", None)]
  ELSE IF ValidateQuery(hashApiKey(apiKey[1])) = {}
    THEN [next |-> FALSE, keyData |-> None,
          response |-> Response(500, "Authentication failed", None)]
  ELSE [next |-> TRUE, keyData |-> Some(CHOOSE r \in ValidateQuery(hashApiKey(apiKey[1])) : TRUE),
        response |-> Response(201, "", None)]

\* the same chain with the controller taking the app from the body when it names one
CollectRequestTrustsBody(apiKey, body) ==
  /\ LET auth == authenticate(apiKey)
     IN  \/ /\ ~ auth.next
            /\ lastOp' = auth.response
            /\ UNCHANGED <<lastUsedQ, evVars>>
         \/ /\ auth.next
            /\ lastUsedQ' = lastUsedQ \cup {auth.keyData[1].id}
            /\ \/ /\ ~ validateEvent(body)
                  /\ lastOp' = Response(400, "errors", None)
                  /\ UNCHANGED evVars
               \/ /\ validateEvent(body)
                  /\ CollectEffect(COALESCE(body.app_id, auth.keyData[1].app_id), body)
                  /\ lastOp' = eventCollectController(CollectResult(COALESCE(body.app_id, auth.keyData[1].app_id), body))
  /\ UNCHANGED <<now, schema, apps, api_keys, nextAppId, nextKey, tx, validations, revoked>>

\* one request through the route's chain
CollectRequest(apiKey, body) ==
  /\ LET auth == authenticate(apiKey)
     IN  \/ /\ ~ auth.next
            /\ lastOp' = auth.response
            /\ UNCHANGED <<lastUsedQ, evVars>>
         \/ /\ auth.next
            /\ lastUsedQ' = lastUsedQ \cup {auth.keyData[1].id}
            /\ \/ /\ ~ validateEvent(body)
                  /\ lastOp' = Response(400, "errors", None)
                  /\ UNCHANGED evVars
               \/ /\ validateEvent(body)
                  /\ CollectEffect(auth.keyData[1].app_id, body)
                  /\ lastOp' = eventCollectController(CollectResult(auth.keyData[1].app_id, body))
  /\ UNCHANGED <<now, schema, apps, api_keys, nextAppId, nextKey, tx, validations, revoked>>

\* requests to POST /collect while keys are revoked and expire
NextHttp ==
  \/ Tick
  \/ \E apiKey \in HeaderInputs, body \in CollectBodies : CollectRequest(apiKey, body)
  \/ \E p \in Clients, apiKey \in KeyInputs : revokeApiKey(p, apiKey)
  \/ \E id \in lastUsedQ : LastUsedUpdate(id)
  \/ \E id \in lastUsedQ : LastUsedFail(id)
  \/ \E i \in Slots : StatsQuery(i)
  \/ \E i \in Slots : UpsertSummary(i)
  \/ \E i \in Slots : SummaryFail(i)

SpecHttp == InitEvents /\ [][NextHttp]_vars

----------------------------------------------------------------------------
(* EventService: getEventSummary, getUserStats, getRecentEvents, getEventCountsByType *)

\* events a table can hold: two of app 1 stored under one timestamp, one of them
\* without user_id; one written in a zone behind UTC, without device; two of
\* another type; one of app 2
BaseEvents ==
  { EventRow(1, 1, [event |-> "click", device |-> Some("mobile"), timestamp |-> Some(Iso(10, 0)), user_id |-> Some("u1")]),
    EventRow(2, 1, [event |-> "click", device |-> None, timestamp |-> Some(Iso(23, -5)), user_id |-> Some("u2")]),
    EventRow(3, 1, [event |-> "click", device |-> Some("desktop"), timestamp |-> Some(Iso(10, 0)), user_id |-> None]),
    EventRow(4, 1, [event |-> "view", device |-> Some("desktop"), timestamp |-> Some(Iso(34, 0)), user_id |-> Some("u1")]),
    EventRow(5, 2, [event |-> "click", device |-> Some("desktop"), timestamp |-> Some(Iso(10, 0)), user_id |-> Some("u1")]),
    EventRow(6, 1, [event |-> "view", device |-> Some("mobile"), timestamp |-> Some(Iso(23, 0)), user_id |-> Some("u1")]) }

\* one user's events of one app, an hour apart, more of them than recent_events holds
BusyUser ==
  { EventRow(i, 1, [event |-> IF i % 3 = 0 THEN "view" ELSE "click", device |-> Some("mobile"),
                    timestamp |-> Some(Iso(i, 0)), user_id |-> Some("u1")]) : i \in 1..MaxUserEvents }

\* the tables the queries are asked on
QueryTables == (SUBSET BaseEvents) \cup { BusyUser }

\* the arguments callers pass: an event type or none, and a range, each end given
\* or not
TypeInputs == { None, Some("click"), Some("view"), Some("scroll") }
RangeInputs ==
  { <<None, None>>, <<Some(Iso(10, 0)), Some(Iso(23, 0))>>,
    <<Some(Iso(11, 0)), None>>, <<None, Some(Iso(10, 5))>> }
LimitInputs == { 1, DefaultLimit }

\* what a query returns (null is None), and the throw of its catch block
Returned(op, appId, value) == Done(op, <<>>, appId, value, {})

\* no statement of a query writes
ReadOnly == UNCHANGED <<now, schema, apps, api_keys, nextAppId, nextKey, tx, lastUsedQ, validations, revoked, evVars>>

getEventSummary(appId, eventType, startDate, endDate) ==
  /\ LET rows == EventSummaryRows(events, appId, eventType, startDate, endDate)
     IN  \/ rows = {} /\ lastOp' = Returned("getEventSummary", appId, None)
         \/ \E row \in rows : lastOp' = Returned("getEventSummary", appId, Some(row))
         \/ lastOp' = Failed("getEventSummary", "Failed to retrieve event summary")
  /\ ReadOnly

getUserStats(appId, userId) ==
  /\ LET results == UserStatsResults(events, appId, userId)
     IN  \/ results = {} /\ lastOp' = Returned("getUserStats", appId, None)
         \/ \E row \in results : lastOp' = Returned("getUserStats", appId, Some(row))
         \/ lastOp' = Failed("getUserStats", "Failed to retrieve user statistics")
  /\ ReadOnly

getRecentEvents(appId, limit) ==
  /\ \/ \E list \in RecentEventsResults(events, appId, limit) :
          lastOp' = Returned("getRecentEvents", appId, Some(list))
     \/ lastOp' = Failed("getRecentEvents", "Failed to retrieve recent events")
  /\ ReadOnly

getEventCountsByType(appId, startDate, endDate) ==
  /\ \/ \E list \in ByCountDesc(CountRows(events, appId, startDate, endDate)) :
          lastOp' = Returned("getEventCountsByType", appId, Some(list))
     \/ lastOp' = Failed("getEventCountsByType", "Failed to retrieve event counts")
  /\ ReadOnly

\* two tenants are registered and events have been ingested; every recomputation
\* has ended
InitQuery ==
  /\ now = 0
  /\ schema = "tests/setup.js"
  /\ apps = { AppRow(1, "App1", <<"x">>, "u1"), AppRow(2, "App2", <<"x">>, "u2") }
  /\ api_keys = { KeyRow(i, i, hashApiKey(generateApiKey(i)), maskApiKey(generateApiKey(i))) : i \in 1..2 }
  /\ nextAppId = 3
  /\ nextKey = 3
  /\ tx = [p \in Clients |-> IdleTx]
  /\ lastUsedQ = {}
  /\ validations = 0
  /\ revoked = {}
  /\ lastOp = NoOp
  /\ events \in QueryTables
  /\ event_summaries = {}
  /\ tasks = [i \in Slots |-> IdleTask]
  /\ quiet = {}
  /\ failed = {}

NextQuery ==
  \/ \E appId \in AppIdInputs, eventType \in TypeInputs, range \in RangeInputs :
       getEventSummary(appId, eventType, range[1], range[2])
  \/ \E appId \in AppIdInputs, userId \in Users : getUserStats(appId, userId)
  \/ \E appId \in AppIdInputs, limit \in LimitInputs : getRecentEvents(appId, limit)
  \/ \E appId \in AppIdInputs, range \in RangeInputs :
       getEventCountsByType(appId, range[1], range[2])

SpecQuery == InitQuery /\ [][NextQuery]_vars

----------------------------------------------------------------------------
(* ApiKeyUtils.maskApiKey applied to arbitrary strings *)

\* the strings masked: every length from empty to beyond the prefix, of letters
\* with a star at one position or none, and the keys generateApiKey returns
MaskInputs ==
  { [i \in 1..n |-> IF i = j THEN "*" ELSE IF i % 2 = 0 THEN "a" ELSE "b"] :
      <<n, j>> \in { x \in (0..MaxMaskLen) \X (0..MaxMaskLen) : x[2] <= x[1] } }
  \cup { generateApiKey(i) : i \in 1..MaxKeys }

\* one call of maskApiKey: the argument and the string returned
MaskKey(apiKey) ==
  /\ lastOp' = Done("maskApiKey", apiKey, 0, Some(maskApiKey(apiKey)), {})
  /\ UNCHANGED <<now, schema, apps, api_keys, nextAppId, nextKey, tx, lastUsedQ, validations, revoked, evVars>>

NextUtils == \E apiKey \in MaskInputs : MaskKey(apiKey)

SpecUtils == Init /\ [][NextUtils]_vars

----------------------------------------------------------------------------
(* auth.controller: the responses to what ApiKeyService returned or threw *)

\* the texts the controllers look for that occur in a message
Contains(message) ==
  CASE message = "App with this URL already registered for this user" -> {"already registered"}
    [] message = "API key not found or already revoked" -> {"not found", "already revoked"}
    [] message = "No active API key found for this app" -> {"No active API key found for this app"}
    [] message = "App not found or unauthorized" -> {"not found", "unauthorized"}
    [] OTHER -> {}

\* error.message.includes(needle)
includes(message, needle) == needle \in Contains(message)

\* res.status(status).json({ success, error })
Reply(status, error) == [status |-> status, success |-> status < 400, error |-> error]

registerAppController(result) ==
  IF result.ok THEN Reply(201, "")
  ELSE IF includes(result.err, "already registered") THEN Reply(409, result.err)
  ELSE Reply(500, "Failed to register app")

revokeApiKeyController(result) ==
  IF result.ok THEN Reply(201, "")
  ELSE IF includes(result.err, "not found") \/ includes(result.err, "already revoked")
    THEN Reply(404, result.err)
  ELSE Reply(500, "Failed to revoke API key")

getApiKeyController(result) ==
  IF result.ok THEN Reply(200, "")
  ELSE IF includes(result.err, "No active API key found for this app") THEN Reply(404, result.err)
  ELSE Reply(500, "Failed to retrieve API key")

\* for a body that carries app_id and user_id (without one of them the
\* controller answers 400 and does not call the service)
regenerateApiKeyController(result) ==
  IF result.ok THEN Reply(200, "")
  ELSE IF includes(result.err, "not found") \/ includes(result.err, "unauthorized")
    THEN Reply(404, result.err)
  ELSE Reply(500, "Failed to regenerate API key")

\* the response of the request whose service call ended in the last step
AuthResponse ==
  CASE lastOp.op = "registerApp" -> registerAppController(lastOp)
    [] lastOp.op = "revokeApiKey" -> revokeApiKeyController(lastOp)
    [] lastOp.op = "getApiKeyByAppId" -> getApiKeyController(lastOp)
    [] lastOp.op = "regenerateApiKey" -> regenerateApiKeyController(lastOp)
    [] OTHER -> Reply(0, "")

----------------------------------------------------------------------------
(* Properties of the credential lifecycle *)

ActiveRowsOfApp(appId) == { r \in api_keys : r.app_id = appId /\ r.is_active }
RowsOfApp(appId) == { r \in api_keys : r.app_id = appId }

\* C1: in every reachable state, under any interleaving of registerApp,
\* regenerateApiKey and revokeApiKey, an app has at most one active api_keys row
C1_AtMostOneActiveKey ==
  \A a \in apps : Cardinality(ActiveRowsOfApp(a.id)) <= 1

\* two rotations of one app raced: the second INSERT met the first one's committed
\* active row in idx_unique_active_key_per_app and its transaction was rolled back
C1_Witness ==
  /\ lastOp.op = "regenerateApiKey"
  /\ ~ lastOp.ok
  /\ lastOp.err = "duplicate key value violates unique constraint"
  /\ \E a \in apps : Cardinality(RowsOfApp(a.id)) >= 2 /\ Cardinality(ActiveRowsOfApp(a.id)) = 1

\* C2: when regenerateApiKey has returned, the app has exactly one active row, the
\* row of the key it returned, and every row that was active when the call began
\* is inactive with revoked_at set
C2_RegenerateLeavesOnlyNewKey ==
  (lastOp.op = "regenerateApiKey" /\ lastOp.ok) =>
    /\ Cardinality(ActiveRowsOfApp(lastOp.app)) = 1
    /\ \A r \in ActiveRowsOfApp(lastOp.app) : r.key_hash = hashApiKey(lastOp.key)
    /\ \A r \in api_keys : r.id \in lastOp.pre => ~ r.is_active /\ r.revoked_at # None

C2_Witness ==
  /\ lastOp.op = "regenerateApiKey"
  /\ lastOp.ok
  /\ lastOp.pre # {}
  /\ \E r \in api_keys : r.id \in lastOp.pre /\ r.key_hash # hashApiKey(lastOp.key)

\* a credential row that resolves apiKey at this instant
LiveCredential(apiKey) ==
  { r \in api_keys : /\ r.key_hash = hashApiKey(apiKey)
                     /\ r.is_active
                     /\ r.expires_at # None
                     /\ r.expires_at[1] > now }

\* C3: validateApiKey(k) returns a tenant context iff a row with key_hash = hash(k),
\* is_active and expires_at > now exists, the context's app_id, app_name and user_id
\* are those of the app owning that row, and otherwise it returns null
C3_ValidateResolvesOwner ==
  [][\A k \in KeyInputs : validateApiKey(k) =>
        /\ (lastOp'.res # None) <=> (LiveCredential(k) # {})
        /\ lastOp'.res # None =>
              \E r \in LiveCredential(k) : \E a \in apps :
                 /\ a.id = r.app_id
                 /\ lastOp'.res[1].app_id = a.id
                 /\ lastOp'.res[1].app_name = a.app_name
                 /\ lastOp'.res[1].user_id = a.user_id]_vars

\* a key was resolved to its tenant while another tenant exists
C3_Witness ==
  /\ lastOp.op = "validateApiKey"
  /\ lastOp.res # None
  /\ Cardinality(apps) = 2
  /\ \E a \in apps : a.id = lastOp.res[1].app_id /\ a.user_id = lastOp.res[1].user_id

\* C4: once revokeApiKey(k) has succeeded, every later validateApiKey(k) returns null
\* and every later revokeApiKey(k) fails with "API key not found or already revoked"
C4_RevokedStaysRevoked ==
  [][\A k \in revoked :
        /\ validateApiKey(k) => lastOp'.res = None
        /\ \A p \in Clients : revokeApiKey(p, k) =>
              /\ ~ lastOp'.ok
              /\ lastOp'.op = "revokeApiKey"
              /\ lastOp'.err = "API key not found or already revoked"]_vars

\* a second revokeApiKey of a revoked key was rejected
C4_Witness ==
  /\ lastOp.op = "revokeApiKey"
  /\ ~ lastOp.ok
  /\ lastOp.key \in revoked
  /\ lastOp.err = "API key not found or already revoked"

----------------------------------------------------------------------------
(* Properties of registration, rotation and revocation *)

\* "x.com" for every way a caller writes it, the other urls as they are
NormalizedUrlOf(appUrl) == IF appUrl = <<"X", " ">> THEN <<"x">> ELSE appUrl

\* C15: registerApp fails with 'already registered' whenever an app of the same
\* user exists whose URL equals the trimmed, lower-cased url, and it adds no apps
\* or api_keys row and opens no transaction that could
C15_DuplicateUrlRejected ==
  [][\A p \in Clients, in \in RegisterInputs :
        (/\ \E a \in apps : a.user_id = in[3] /\ a.app_url = NormalizedUrlOf(in[2])
         /\ RegisterBegin(p, in[1], in[2], in[3])) =>
          /\ lastOp'.op = "registerApp" /\ ~ lastOp'.ok
          /\ lastOp'.err = "App with this URL already registered for this user"
          /\ apps' = apps
          /\ api_keys' = api_keys
          /\ tx' = tx]_vars

\* a registration was rejected as a duplicate while the user's only app is the
\* one stored as "x.com"
C15_Witness ==
  /\ lastOp.op = "registerApp" /\ ~ lastOp.ok
  /\ lastOp.err = "App with this URL already registered for this user"
  /\ \E a \in apps : a.app_url = <<"x">> /\ a.user_id = "u1"
  /\ \A q \in Clients : tx[q].pc = "idle"

\* C16: in every reachable state, concurrent registrations included, no two apps
\* have the same user and the same normalized URL
C16_UniqueUrlPerOwner ==
  \A a, b \in apps :
    (a.user_id = b.user_id /\ NormalizedUrlOf(a.app_url) = NormalizedUrlOf(b.app_url)) => a.id = b.id

\* two registrations of one URL ran together: both passed the SELECT, and the
\* second INSERT was rejected by UNIQUE(user_id, app_url)
C16_Witness ==
  /\ lastOp.op = "registerApp" /\ ~ lastOp.ok
  /\ lastOp.err = "duplicate key value violates unique constraint"
  /\ Cardinality(apps) = 1
  /\ nextAppId = 2

\* C17: registerApp commits the apps row together with exactly one active api_keys
\* row, or neither: every committed app has a key row, the app a registration
\* returned has exactly one row, active, and a failed registration leaves no app
\* behind
C17_RegisterAllOrNothing ==
  /\ \A a \in apps : RowsOfApp(a.id) # {}
  /\ (lastOp.op = "registerApp" /\ lastOp.ok) =>
       /\ \E a \in apps : a.id = lastOp.app
       /\ Cardinality(RowsOfApp(lastOp.app)) = 1
       /\ \A r \in RowsOfApp(lastOp.app) : r.is_active /\ r.key_hash = hashApiKey(lastOp.key)
  /\ \A r \in api_keys : \E a \in apps : a.id = r.app_id

\* under init.sql the INSERT INTO api_keys failed after the INSERT INTO apps had
\* handed out an id: the registration failed and no app is stored
C17_Witness ==
  /\ lastOp.op = "registerApp" /\ ~ lastOp.ok
  /\ lastOp.err = "value too long for type character varying"
  /\ nextAppId > 1
  /\ apps = {}
  /\ api_keys = {}

\* C18: regenerateApiKey fails with 'App not found or unauthorized' both for an id
\* that is no app's and for an app of another user, and changes no api_keys row
C18_RegenerateUnknownOrForeign ==
  [][\A p \in Clients, appId \in AppIdInputs, userId \in Users :
        (/\ ~ \E a \in apps : a.id = appId /\ a.user_id = userId
         /\ RegenerateBegin(p, appId, userId)) =>
          /\ ~ lastOp'.ok
          /\ lastOp'.op = "regenerateApiKey"
          /\ lastOp'.err = "App not found or unauthorized"
          /\ api_keys' = api_keys
          /\ tx' = tx]_vars

\* a rotation was refused for an app that exists (the caller was not its user)
\* and the app's key is still active
C18_Witness ==
  /\ lastOp.op = "regenerateApiKey"
  /\ ~ lastOp.ok
  /\ lastOp.err = "App not found or unauthorized"
  /\ \E a \in apps : a.id = lastOp.app /\ ActiveRowsOfApp(a.id) # {}

\* C19: revokeApiKey on a key that was never issued and on a key already revoked
\* fails with the same error and changes no api_keys row
C19_RevokeUnknownOrRevoked ==
  [][\A p \in Clients, apiKey \in KeyInputs :
        (/\ apiKey = FakeKey \/ apiKey \in revoked
         /\ revokeApiKey(p, apiKey)) =>
          /\ ~ lastOp'.ok
          /\ lastOp'.op = "revokeApiKey"
          /\ lastOp'.err = "API key not found or already revoked"
          /\ lastOp'.res = None
          /\ api_keys' = api_keys]_vars

\* a second revocation of a key was refused: its row is as the first left it
C19_Witness ==
  /\ lastOp.op = "revokeApiKey"
  /\ ~ lastOp.ok
  /\ lastOp.key \in revoked
  /\ \E r \in api_keys : r.key_hash = hashApiKey(lastOp.key) /\ ~ r.is_active /\ r.revoked_at # None

\* C20: getApiKeyByAppId fails with 'No active API key found for this app' exactly
\* when the app has no active api_keys row (no such app, or its key was revoked
\* and not rotated since); otherwise it returns the metadata of the app's single
\* active row, with is_active true
C20_ActiveKeyOrNotFound ==
  [][\A appId \in AppIdInputs : getApiKeyByAppId(appId) =>
        IF ActiveRowsOfApp(appId) = {}
          THEN /\ ~ lastOp'.ok
               /\ lastOp'.err = "No active API key found for this app"
          ELSE /\ lastOp'.ok
               /\ \E r \in ActiveRowsOfApp(appId), a \in apps :
                    /\ ActiveRowsOfApp(appId) = {r}
                    /\ a.id = appId
                    /\ lastOp'.res[1].is_active = TRUE
                    /\ lastOp'.res[1].app_id = appId
                    /\ lastOp'.res[1].app_name = a.app_name
                    /\ lastOp'.res[1].app_url = a.app_url
                    /\ lastOp'.res[1].created_at = r.created_at
                    /\ lastOp'.res[1].expires_at = r.expires_at
                    /\ lastOp'.res[1].last_used_at = r.last_used_at
                    /\ SubSeq(lastOp'.res[1].key_prefix, 1, PrefixLength) = SubSeq(r.key_prefix, 1, PrefixLength)]_vars

\* the lookup was refused for an app whose key had been revoked
C20_Witness ==
  /\ lastOp.op = "getApiKeyByAppId"
  /\ ~ lastOp.ok
  /\ \E a \in apps : a.id = lastOp.app
  /\ \E r \in RowsOfApp(lastOp.app) : r.revoked_at # None

\* C24: no operation deletes an api_keys row and none sets is_active from false
\* back to true: every row of a state is a row of the next, under the same hash
\* and app, and inactive there if it was inactive
C24_KeysKeptAndNeverReactivated ==
  [][\A r \in api_keys : \E n \in api_keys' :
        /\ n.id = r.id
        /\ n.key_hash = r.key_hash
        /\ n.app_id = r.app_id
        /\ ~ r.is_active => ~ n.is_active]_vars

\* an app was registered, its key revoked, and a rotation then issued a new key:
\* the revoked row is still there, inactive, beside the active one
C24_Witness ==
  /\ lastOp.op = "regenerateApiKey"
  /\ lastOp.ok
  /\ lastOp.pre = {}
  /\ \E r \in RowsOfApp(lastOp.app) : ~ r.is_active /\ hashApiKey(generateApiKey(r.id)) = r.key_hash
                                       /\ generateApiKey(r.id) \in revoked

----------------------------------------------------------------------------
(* Properties of the auth boundary *)

\* the registration that client p is rolling back is of an owner and URL that a
\* committed app holds
DuplicateRegistration(p) ==
  /\ tx[p].op = "registerApp"
  /\ \E a \in apps : a.user_id = tx[p].userId /\ toLowerCase(a.app_url) = tx[p].appUrl

\* C29: a duplicate registration is answered 409; the revocation of a key with no
\* matching active credential, the description of a tenant with no active
\* credential and the rotation of a tenant that is missing or another owner's are
\* answered 404; every other failure is answered 500
C29_FailuresMappedToStatus ==
  [][/\ \A p \in Clients, in \in RegisterInputs :
          (RegisterBegin(p, in[1], in[2], in[3]) /\ ~ lastOp'.ok) => AuthResponse'.status = 409
     /\ \A p \in Clients :
          Rollback(p) => AuthResponse'.status = IF DuplicateRegistration(p) THEN 409 ELSE 500
     /\ \A p \in Clients, apiKey \in KeyInputs :
          ((revokeApiKey(p, apiKey) \/ RevokeResume(p)) /\ lastOp'.op = "revokeApiKey" /\ ~ lastOp'.ok)
            => AuthResponse'.status = 404
     /\ \A appId \in AppIdInputs :
          (getApiKeyByAppId(appId) /\ ~ lastOp'.ok) => AuthResponse'.status = 404
     /\ \A p \in Clients, appId \in AppIdInputs, userId \in Users :
          (RegenerateBegin(p, appId, userId) /\ ~ lastOp'.ok) => AuthResponse'.status = 404]_vars

\* C30: of registerApp calls running together on the pool's clients for pairwise
\* distinct owners and URLs, every one completes successfully: none that ends in
\* the catch block was for anything but an owner and URL a committed app holds
C30_DistinctRegistrationsSucceed ==
  [][\A p \in Clients :
       (Rollback(p) /\ tx[p].op = "registerApp") => DuplicateRegistration(p)]_vars

\* C33: a registerApp call that does not commit because a committed app holds its
\* owner and normalized URL fails with the 'already registered' error, whether its
\* own SELECT found the app or the app was committed after that SELECT
C33_DuplicateAlwaysAlreadyRegistered ==
  [][/\ \A p \in Clients, in \in RegisterInputs :
          (RegisterBegin(p, in[1], in[2], in[3]) /\ lastOp'.op = "registerApp" /\ ~ lastOp'.ok)
            => includes(lastOp'.err, "already registered")
     /\ \A p \in Clients :
          (Rollback(p) /\ DuplicateRegistration(p)) => includes(lastOp'.err, "already registered")]_vars

----------------------------------------------------------------------------
(* Properties of credential issuance *)

\* C34: the value registerApp and regenerateApiKey are about to store as key_prefix
\* is no longer than the column is wide, and no INSERT INTO api_keys has been
\* rejected for its length
C34_PrefixFitsColumn ==
  \A p \in Clients :
    /\ tx[p].pc \in {"reg_insert_key", "regen_insert_key"} =>
         Len(maskApiKey(generateApiKey(nextKey))) <= KeyPrefixWidth
    /\ tx[p].err # "value too long for type character varying"

\* the rows of api_keys that are inactive and were not revoked by revokeApiKey:
\* a rotation deactivated them
RotatedOut == { r \in api_keys : ~ r.is_active /\ \A k \in revoked : hashApiKey(k) # r.key_hash }

\* C31: when a regenerateApiKey that has deactivated a key fails, ROLLBACK leaves
\* api_keys as it was committed, the key still active and, until it expires,
\* still resolving; and in every committed state a key a rotation deactivated
\* has beside it the key that rotation issued
C31_FailedRotationKeepsOldKey ==
  [][/\ \A p \in Clients :
          (Rollback(p) /\ tx[p].op = "regenerateApiKey" /\ tx[p].deact # {}) =>
            /\ api_keys' = api_keys
            /\ \A d \in tx[p].deact : \E r \in api_keys' :
                 /\ r.id = d.id /\ r.is_active
                 /\ r.expires_at[1] > now => (ValidateQuery(r.key_hash) # {})'
     /\ (\A r \in RotatedOut : \E n \in api_keys :
            n.app_id = r.app_id /\ n.id # r.id /\ n.created_at = r.revoked_at[1])']_vars

\* a rotation that had deactivated the app's only key failed in its INSERT and was
\* rolled back: the key is active and nothing else was issued
C31_Witness ==
  /\ lastOp.op = "regenerateApiKey" /\ ~ lastOp.ok /\ lastOp.err = "store error"
  /\ revoked = {}
  /\ \A q \in Clients : tx[q].pc = "idle"
  /\ Cardinality(api_keys) = 1
  /\ \A r \in api_keys : r.is_active /\ ValidateQuery(r.key_hash) # {}

\* the key_hash of the active keys of an app
ActiveHashes(appId) == { r.key_hash : r \in ActiveRowsOfApp(appId) }

\* C32: with rotations of one app running together, a rotation that returns a key
\* has committed it as the app's only active key, and no step but a later
\* rotation's commit or a revocation changes which key is active: once all have
\* finished, the active key is the one returned by the rotation that committed last
C32_LastCommittedRotationWins ==
  [][/\ \A p \in Clients, appId \in 1..(nextAppId - 1) :
          (RegenerateCommit(p) /\ tx[p].appId = appId) =>
            /\ lastOp'.key = tx[p].apiKey
            /\ ActiveHashes(appId)' = { hashApiKey(tx[p].apiKey) }
            /\ Cardinality(ActiveRowsOfApp(appId))' = 1
     /\ ((~ \E p \in Clients : RegenerateCommit(p)) /\ revoked' = revoked) =>
          \A appId \in 1..(nextAppId - 1) : ActiveHashes(appId)' = ActiveHashes(appId)]_vars

\* two rotations of the app ran together: one has committed its key, the other
\* failed on idx_unique_active_key_per_app and was rolled back
C32_Witness ==
  /\ lastOp.op = "regenerateApiKey" /\ ~ lastOp.ok
  /\ lastOp.err = "duplicate key value violates unique constraint"
  /\ \A q \in Clients : tx[q].pc = "idle"
  /\ revoked = {}
  /\ Cardinality(api_keys) = 2
  /\ ActiveHashes(1) = { hashApiKey(generateApiKey(2)) } \/ ActiveHashes(1) = { hashApiKey(generateApiKey(3)) }

\* a row of api_keys without its last_used_at
BesidesLastUsed(r) == [r EXCEPT !.last_used_at = None]

\* C35: the dispatched last-used update changes last_used_at of the resolved key's
\* row and nothing else, a failed one changes nothing, and neither changes what
\* validateApiKey resolves any key to; validateApiKey itself returns the key's app
\* and owner with the update still pending and api_keys untouched
C35_LastUsedTouchesOnlyLastUsed ==
  [][/\ \A id \in lastUsedQ : (id \notin lastUsedQ' /\ LastUsedUpdate(id)) =>
          /\ { r \in api_keys' : r.id # id } = { r \in api_keys : r.id # id }
          /\ { BesidesLastUsed(r) : r \in api_keys' } = { BesidesLastUsed(r) : r \in api_keys }
          /\ apps' = apps
     /\ \A id \in lastUsedQ : (id \notin lastUsedQ' /\ LastUsedFail(id)) =>
          (api_keys' = api_keys /\ apps' = apps)
     /\ \A id \in lastUsedQ, apiKey \in KeyInputs :
          (id \notin lastUsedQ' /\ (LastUsedUpdate(id) \/ LastUsedFail(id))) =>
            ValidateQuery(hashApiKey(apiKey))' = ValidateQuery(hashApiKey(apiKey))
     /\ \A apiKey \in KeyInputs :
          (lastOp'.op = "validateApiKey" /\ lastOp'.res # None /\ validateApiKey(apiKey)) =>
            /\ api_keys' = api_keys
            /\ lastOp'.res[1].id \in lastUsedQ'
            /\ \E k \in api_keys, a \in apps :
                 /\ k.key_hash = hashApiKey(apiKey) /\ k.app_id = a.id
                 /\ lastOp'.res[1].id = k.id
                 /\ lastOp'.res[1].app_id = a.id
                 /\ lastOp'.res[1].user_id = a.user_id]_vars

\* a key was resolved and its last-used update has run
C35_Witness ==
  /\ validations > 0
  /\ lastUsedQ = {}
  /\ \E r \in api_keys : r.last_used_at # None

\* how often an invocation made the call c on its client
Count(calls, c) == Cardinality({ i \in 1..Len(calls) : calls[i] = c })

\* C37: every client registerApp or regenerateApiKey checks out of the pool is
\* released exactly once, as the last call on it, on the commit path and on the
\* paths through catch; the transaction it began is ended by exactly one COMMIT or
\* ROLLBACK, made before the release (COMMIT when the call returned, ROLLBACK
\* when it threw); and a client still in use has been checked out once, has an
\* open transaction and has not been released
C37_ClientReleasedOnce ==
  /\ \A p \in Clients :
       tx[p].op \in {"registerApp", "regenerateApiKey"} =>
         /\ tx[p].pc # "idle"
         /\ tx[p].client = <<"connect", "BEGIN">>
  /\ lastOp.op \in {"registerApp", "regenerateApiKey"} =>
       LET calls == lastOp.client
           ended == { i \in 1..Len(calls) : calls[i] \in {"COMMIT", "ROLLBACK"} }
       IN  /\ Len(calls) = 4
           /\ calls[1] = "connect" /\ Count(calls, "connect") = 1
           /\ calls[2] = "BEGIN" /\ Count(calls, "BEGIN") = 1
           /\ calls[Len(calls)] = "release" /\ Count(calls, "release") = 1
           /\ ended = {3}
           /\ lastOp.ok <=> calls[3] = "COMMIT"

\* a registration's INSERT threw and its catch and finally have run, while another
\* invocation still holds its client, and an earlier one has committed
C37_Witness ==
  /\ lastOp.op = "registerApp"
  /\ lastOp.err = "duplicate key value violates unique constraint"
  /\ lastOp.client = <<"connect", "BEGIN", "ROLLBACK", "release">>
  /\ \E p \in Clients : tx[p].op = "regenerateApiKey" /\ tx[p].client = <<"connect", "BEGIN">>
  /\ apps # {}

----------------------------------------------------------------------------
(* Properties of aggregation *)

NoTaskInFlight == \A i \in Slots : tasks[i].pc = "idle"

\* the aggregate columns of a summary row
Counts(r) == [total_count |-> r.total_count, unique_users |-> r.unique_users, device_data |-> r.device_data]

RECURSIVE SumOver(_, _)
SumOver(f, S) == IF S = {} THEN 0 ELSE LET k == CHOOSE x \in S : TRUE IN f[k] + SumOver(f, S \ {k})

\* the events of a tenant and type whose instant falls on a UTC day
UtcDayEvents(key) ==
  { e \in events : e.app_id = key[1] /\ e.event_type = key[2]
                    /\ ToISODate(e.timestamp - e.zone) = key[3] }

\* C5: once the collectEvent calls for a key and the recomputations they trigger
\* have all completed, in whatever order, the key's row holds the aggregate over
\* all its stored events.  Stated for the recomputation that completes last, after
\* one that counted every stored event
C5_CompletionOrderIrrelevant ==
  (lastOp.op = "updateEventSummary" /\ lastOp.ok /\ lastOp.over /\ NoTaskInFlight) =>
    \A r \in SummaryRows(lastOp.key) :
       Counts(r) = Stats(lastOp.key[1], lastOp.key[2], lastOp.key[3])

\* C6: when an updateEventSummary(tenant, eventType, t) with no ingestion during it
\* has completed, the row of (tenant, eventType, UTC day of t) counts the events
\* whose timestamp falls on that UTC day, and their distinct non-null user_ids
C6_CountsEventsOfUtcDay ==
  (lastOp.op = "updateEventSummary" /\ lastOp.ok /\ lastOp.alone) =>
    /\ SummaryRows(lastOp.key) # {}
    /\ \A r \in SummaryRows(lastOp.key) :
         /\ r.total_count = Cardinality(UtcDayEvents(lastOp.key))
         /\ r.unique_users =
              Cardinality({ e.user_id[1] : e \in { x \in UtcDayEvents(lastOp.key) : x.user_id # None } })

\* C7: in every summary row the device_data counts sum to total_count, and when an
\* invocation with no ingestion during it has written the row, every event of the
\* key is counted in the bucket of its device, a missing device under "unknown"
C7_DevicePartition ==
  /\ \A r \in event_summaries : SumOver(r.device_data, DOMAIN r.device_data) = r.total_count
  /\ (lastOp.op = "updateEventSummary" /\ lastOp.ok /\ lastOp.alone) =>
       \A r \in SummaryRows(lastOp.key) :
          LET rows == StatsRows(lastOp.key[1], lastOp.key[2], lastOp.key[3])
              bucket(e) == IF e.device = None THEN "unknown" ELSE e.device[1]
          IN  /\ DOMAIN r.device_data = { bucket(e) : e \in rows }
              /\ \A k \in DOMAIN r.device_data :
                   r.device_data[k] = Cardinality({ e \in rows : bucket(e) = k })

\* a row written over an event with a device and one without
C7_Witness ==
  /\ lastOp.op = "updateEventSummary" /\ lastOp.ok /\ lastOp.alone
  /\ \E r \in SummaryRows(lastOp.key) :
       /\ r.total_count = 2
       /\ DOMAIN r.device_data = {"mobile", "unknown"}

\* an invocation that ran in sequence after a completed one for its key, with
\* nothing ingested since that one began and no other invocation for the key
\* in flight with it, is about to run its upsert
SecondInSequence(i) ==
  /\ tasks[i].pc = "upsert"
  /\ tasks[i].sequel /\ tasks[i].alone /\ ~ tasks[i].peers
  /\ tasks[i].key \in quiet

\* C8 as stated: the row after the second of two invocations in sequence, with no
\* event ingested in between, is identical to the row after the first
C8_ByteIdentical ==
  [][\A i \in Slots : (SecondInSequence(i) /\ UpsertSummary(i)) =>
        { r \in event_summaries' : SummaryKey(r) = tasks[i].key }
          = { r \in event_summaries : SummaryKey(r) = tasks[i].key }]_vars

\* C8: the row after the second of two invocations in sequence, with no event
\* ingested in between, equals the row after the first in every column but
\* updated_at
C8_IdenticalButUpdatedAt ==
  [][\A i \in Slots : (SecondInSequence(i) /\ UpsertSummary(i)) =>
        { [r EXCEPT !.updated_at = 0] : r \in { x \in event_summaries' : SummaryKey(x) = tasks[i].key } }
          = { [r EXCEPT !.updated_at = 0] : r \in { x \in event_summaries : SummaryKey(x) = tasks[i].key } }]_vars

\* the second invocation in sequence has completed, at a later clock reading
C8_Witness ==
  /\ lastOp.op = "updateEventSummary" /\ lastOp.ok
  /\ lastOp.sequel /\ lastOp.alone /\ ~ lastOp.peers /\ lastOp.over /\ lastOp.conflict
  /\ \E r \in SummaryRows(lastOp.key) : r.total_count > 0 /\ r.updated_at > r.created_at

\* C9: when the last of several concurrent invocations for a key over a fixed
\* event set has completed, the key has exactly one row, with the counts a single
\* invocation produces
C9_ConcurrentEqualsSequential ==
  (/\ lastOp.op = "updateEventSummary" /\ lastOp.ok
   /\ lastOp.alone /\ lastOp.peers
   /\ \A i \in Slots : tasks[i].pc # "idle" => tasks[i].key # lastOp.key) =>
    /\ Cardinality(SummaryRows(lastOp.key)) = 1
    /\ \A r \in SummaryRows(lastOp.key) :
         Counts(r) = Stats(lastOp.key[1], lastOp.key[2], lastOp.key[3])

\* the last of two concurrent invocations over two stored events has completed
C9_Witness ==
  /\ lastOp.op = "updateEventSummary" /\ lastOp.ok
  /\ lastOp.alone /\ lastOp.peers /\ lastOp.conflict
  /\ NoTaskInFlight
  /\ \E r \in SummaryRows(lastOp.key) : r.total_count = 2

\* C10: in every reachable state no two event_summaries rows have the same
\* (app_id, event_type, date), concurrent first recomputations included
C10_OneRowPerKey ==
  \A r1, r2 \in event_summaries : SummaryKey(r1) = SummaryKey(r2) => r1 = r2

\* of two invocations that began while their key had no row, the second to run its
\* upsert met the row of the first
C10_Witness ==
  /\ lastOp.op = "updateEventSummary" /\ lastOp.ok
  /\ lastOp.first /\ lastOp.conflict /\ lastOp.peers
  /\ Cardinality(SummaryRows(lastOp.key)) = 1

----------------------------------------------------------------------------
(* Properties of ingestion *)

\* C11: collectEvent called without a timestamp succeeds and stores exactly one
\* event (whose timestamp is the capture time)
C11_MissingTimestampDefaults ==
  [][\A e \in EventInputs : (e.timestamp = None /\ collectEvent(e.app_id, e)) =>
        /\ lastOp'.ok
        /\ Cardinality(events') = Cardinality(events) + 1]_vars

\* C23: events are append-only: every stored event is in every later state,
\* unchanged, whatever the ingestor, the recomputations or the credential store do
C23_EventsAppendOnly ==
  [][events \subseteq events']_vars

\* two events are stored, a recomputation has written a summary, and a key has
\* since been revoked
C23_Witness ==
  /\ lastOp.op = "revokeApiKey"
  /\ lastOp.ok
  /\ Cardinality(events) >= 2
  /\ event_summaries # {}

\* C21: after a recomputation for a key has failed, or while one for the key is
\* still in flight and has not completed, an ingestion for the key whose
\* recomputation completes with nothing ingested since it began leaves the key's
\* row holding the aggregate over all events stored for the key
C21_NextIngestionHeals ==
  (/\ lastOp.op = "updateEventSummary" /\ lastOp.ok /\ lastOp.alone
   /\ \/ lastOp.heals
      \/ \E i \in Slots : tasks[i].pc # "idle" /\ tasks[i].key = lastOp.key) =>
    /\ SummaryRows(lastOp.key) # {}
    /\ \A r \in SummaryRows(lastOp.key) :
         Counts(r) = Stats(lastOp.key[1], lastOp.key[2], lastOp.key[3])

\* the recomputation of the first ingestion failed and left no row; that of the
\* second, with no other in flight, has completed and its row counts both events
C21_Witness ==
  /\ lastOp.op = "updateEventSummary" /\ lastOp.ok
  /\ lastOp.heals /\ lastOp.alone /\ ~ lastOp.peers /\ ~ lastOp.conflict
  /\ NoTaskInFlight
  /\ \E r \in SummaryRows(lastOp.key) : r.total_count = 2

\* C36: every step that stores an event is a request to POST /collect whose key
\* validateApiKey resolves and whose body validateEvent accepts, and the stored
\* event's app_id is that of the key's app, whatever app the body names
C36_StoredUnderResolvedTenant ==
  [][events' # events =>
       \A e \in events' \ events :
         \E apiKey \in KeyInputs, body \in CollectBodies :
            /\ CollectRequest(Some(apiKey), body)
            /\ validateEvent(body)
            /\ \E r \in LiveCredential(apiKey) : e.app_id = r.app_id]_vars

\* the request whose body names app 2 was made with the key of app 1 and then
\* with the key of app 2: app 1 has an event of its own
C36_Witness ==
  /\ lastOp.op = "POST /collect" /\ lastOp.status = 201
  /\ \E e \in events : e.app_id = 1
  /\ \E e \in events : e.app_id = 2

\* a step of an updateEventSummary invocation
RecomputeStep == \E i \in Slots : StatsQuery(i) \/ UpsertSummary(i) \/ SummaryFail(i)

\* C12: collectEvent returns the inserted row's RETURNING columns while the
\* recomputation it dispatched has not yet run a query, and no step of a
\* recomputation, successful or failing, changes the stored events
C12_IngestionIndependentOfRecompute ==
  [][/\ \A e \in EventInputs : (e.timestamp # None /\ collectEvent(e.app_id, e)) =>
          /\ lastOp'.ok
          /\ \E row \in events' \ events :
               /\ events' = events \cup {row}
               /\ lastOp'.res = Some([id |-> row.id, app_id |-> row.app_id,
                                       event_type |-> row.event_type, timestamp |-> row.timestamp])
          /\ \E i \in Slots : tasks[i].pc = "idle" /\ tasks'[i].pc = "stats"
     /\ RecomputeStep => events' = events]_vars

\* the recomputation an ingestion dispatched has failed and the event is stored
C12_Witness ==
  /\ lastOp.op = "updateEventSummary"
  /\ ~ lastOp.ok
  /\ events # {}
  /\ event_summaries = {}

\* C13: a collectEvent whose insert succeeds dispatches exactly one recomputation,
\* for (tenant, eventType, UTC day of the event's timestamp); one whose insert
\* fails dispatches none
C13_OneRecomputePerIngestedEvent ==
  [][\A e \in EventInputs : collectEvent(e.app_id, e) =>
        IF lastOp'.ok
          THEN /\ Cardinality(events') = Cardinality(events) + 1
               /\ \E i \in Slots :
                    /\ tasks[i].pc = "idle"
                    /\ tasks'[i].pc = "stats"
                    /\ tasks'[i].key = <<e.app_id, e.event, (e.timestamp[1].wall - e.timestamp[1].off) \div 24>>
                    /\ \A j \in Slots \ {i} : tasks'[j].pc = tasks[j].pc /\ tasks'[j].key = tasks[j].key
          ELSE /\ events' = events
               /\ tasks' = tasks]_vars

\* an event written in a zone behind UTC was ingested late in its day: the
\* recomputation dispatched is for the next UTC day
C13_Witness ==
  /\ lastOp.op = "collectEvent"
  /\ lastOp.ok
  /\ \E e \in events : e.id = lastOp.res[1].id /\ e.zone < 0
  /\ \E i \in Slots : tasks[i].pc = "stats" /\ tasks[i].key = <<1, "click", 1>>

\* C14: a request whose x-api-key resolves to no active, unexpired credential is
\* answered 401 and no event is persisted for it
C14_UnresolvedKeyUnauthorized ==
  [][\A k \in KeyInputs, b \in CollectBodies :
        (ValidateQuery(hashApiKey(k)) = {} /\ CollectRequest(Some(k), b)) =>
          /\ lastOp'.status = 401
          /\ events' = events]_vars

----------------------------------------------------------------------------
(* Properties of the query service *)

\* the events of an app whose stored timestamp lies in the range, ends included
EventsInRange(appId, startDate, endDate) ==
  { e \in events : /\ e.app_id = appId
                   /\ startDate # None => startDate[1].wall <= e.timestamp
                   /\ endDate # None => e.timestamp <= endDate[1].wall }

\* the distinct user_id values of a set of events, NULL not among them
UsersOf(rows) == { u \in Users : \E e \in rows : e.user_id = Some(u) }

\* C25: getEventSummary(appId, eventType, startDate, endDate) returns null exactly
\* when no event of the app has the event type and a timestamp in the inclusive
\* range; otherwise count is the number of those events and unique_users the
\* number of distinct non-null user_id values among them
C25_SummaryCountsMatchingEvents ==
  [][\A appId \in AppIdInputs, t \in {"click", "view", "scroll"}, range \in RangeInputs :
        (getEventSummary(appId, Some(t), range[1], range[2]) /\ lastOp'.ok) =>
          LET matching == { e \in EventsInRange(appId, range[1], range[2]) : e.event_type = t }
          IN  IF matching = {} THEN lastOp'.res = None
              ELSE /\ lastOp'.res # None
                   /\ lastOp'.res[1].event_type = t
                   /\ lastOp'.res[1].count = Cardinality(matching)
                   /\ lastOp'.res[1].unique_users = Cardinality(UsersOf(matching))]_vars

\* a summary was returned for a range whose end is the timestamp of two events,
\* one of them without user_id
C25_Witness ==
  /\ lastOp.op = "getEventSummary"
  /\ lastOp.ok
  /\ lastOp.res # None
  /\ lastOp.res[1].count = 2
  /\ lastOp.res[1].unique_users = 1
  /\ Cardinality({ e \in events : e.app_id = lastOp.app /\ e.event_type = "click" }) = 3

\* C26: getUserStats(appId, userId) returns null exactly when the app has no event
\* with that user_id; otherwise total_events is the number of such events and
\* recent_events holds the 10 most recent of them (all when fewer), most recent
\* first
C26_UserStatsRecentTen ==
  [][\A appId \in AppIdInputs, userId \in Users :
        (getUserStats(appId, userId) /\ lastOp'.ok) =>
          LET sub == { e \in events : e.app_id = appId /\ e.user_id = Some(userId) }
              cap(n) == IF n > 10 THEN 10 ELSE n
          IN  IF sub = {} THEN lastOp'.res = None
              ELSE /\ lastOp'.res # None
                   /\ lastOp'.res[1].total_events = Cardinality(sub)
                   /\ LET recent == lastOp'.res[1].recent_events
                      IN  /\ Len(recent) = cap(Cardinality(sub))
                          /\ \A i, j \in 1..Len(recent) :
                               i < j => recent[i].timestamp >= recent[j].timestamp
                          /\ \A t \in {0} \cup { e.timestamp : e \in sub } :
                               Cardinality({ i \in 1..Len(recent) : recent[i].timestamp > t })
                                 = cap(Cardinality({ e \in sub : e.timestamp > t }))
                          /\ \A i \in 1..Len(recent) :
                               \E e \in sub : e.timestamp = recent[i].timestamp
                                              /\ e.event_type = recent[i].event_type]_vars

\* the statistics of a user with twelve events were returned: recent_events holds
\* the ten newest, from the newest down
C26_Witness ==
  /\ lastOp.op = "getUserStats"
  /\ lastOp.ok
  /\ lastOp.res # None
  /\ lastOp.res[1].total_events = MaxUserEvents
  /\ Len(lastOp.res[1].recent_events) = 10
  /\ lastOp.res[1].recent_events[1].timestamp = MaxUserEvents
  /\ lastOp.res[1].recent_events[10].timestamp = MaxUserEvents - 9

\* C27: getEventCountsByType(appId, startDate, endDate) returns one entry per event
\* type that has an event of the app in the range, its count the number of those
\* events, the entries in non-increasing order of count
C27_CountsByTypeDescending ==
  [][\A appId \in AppIdInputs, range \in RangeInputs :
        (getEventCountsByType(appId, range[1], range[2]) /\ lastOp'.ok) =>
          LET data == EventsInRange(appId, range[1], range[2])
              list == lastOp'.res[1]
          IN  /\ { list[i].event_type : i \in 1..Len(list) } = { e.event_type : e \in data }
              /\ \A i, j \in 1..Len(list) : list[i].event_type = list[j].event_type => i = j
              /\ \A i \in 1..Len(list) :
                   list[i].count = Cardinality({ e \in data : e.event_type = list[i].event_type })
              /\ \A i, j \in 1..Len(list) : i < j => list[i].count >= list[j].count]_vars

\* counts of two event types were returned, the larger first
C27_Witness ==
  /\ lastOp.op = "getEventCountsByType"
  /\ lastOp.ok
  /\ Len(lastOp.res[1]) = 2
  /\ lastOp.res[1][1].count = 3
  /\ lastOp.res[1][2].count = 1

----------------------------------------------------------------------------
(* Properties of tenant isolation *)

\* what an app can see: its summary rows and the results its queries can return
View(appId, evs, sums) ==
  [summaries |-> { r \in sums : r.app_id = appId },
   summary |-> [t \in TypeInputs, range \in RangeInputs |->
                  EventSummaryRows(evs, appId, t, range[1], range[2])],
   userStats |-> [u \in Users |-> UserStatsResults(evs, appId, u)],
   recent |-> [limit \in LimitInputs |-> RecentEventsResults(evs, appId, limit)],
   counts |-> [range \in RangeInputs |-> ByCountDesc(CountRows(evs, appId, range[1], range[2]))]]

\* a step taken for an app: the ingestion of one of its events, or a step of a
\* recomputation for one of its keys
TenantStep(appId) ==
  \/ \E e \in EventInputs : e.app_id = appId /\ collectEvent(appId, e)
  \/ \E in \in RecomputeInputs : in[1] = appId /\ updateEventSummary(in[1], in[2], in[3])
  \/ \E i \in Slots : /\ tasks[i].key[1] = appId
                       /\ (StatsQuery(i) \/ UpsertSummary(i) \/ SummaryFail(i))

\* C22: a step taken for one app leaves every other app's summary rows and query
\* results as they were, and the statistics a recomputation reads for a key are
\* those of the key's own app's events: what an app sees depends on its own
\* events only
C22_TenantIsolation ==
  [][/\ \A b \in 1..(nextAppId - 1) :
          \/ UNCHANGED <<events, event_summaries>>
          \/ View(b, events', event_summaries') = View(b, events, event_summaries)
          \/ ~ \E a \in 1..(nextAppId - 1) : a # b /\ TenantStep(a)
     /\ \A i \in Slots : StatsQuery(i) =>
          tasks'[i].stats[1].total_count =
            Cardinality({ e \in events : /\ e.app_id = tasks[i].key[1]
                                         /\ e.event_type = tasks[i].key[2]
                                         /\ e.timestamp \div 24 = tasks[i].key[3] })]_vars

\* an event of app 1 was ingested while app 2 has an event of the same type and
\* day and a summary row counting it alone
C22_Witness ==
  /\ lastOp.op = "collectEvent"
  /\ lastOp.ok
  /\ lastOp.res[1].app_id = 1
  /\ lastOp.res[1].event_type = "click"
  /\ \E e \in events : e.app_id = 2 /\ e.event_type = "click"
  /\ \E r \in event_summaries : r.app_id = 2 /\ r.event_type = "click" /\ r.total_count = 1

----------------------------------------------------------------------------
(* Properties of ApiKeyUtils *)

\* C28: for every string s, maskApiKey(s) has the length of s, begins with the
\* first 15 characters of s (all of s when s is shorter), and is '*' from there on
C28_MaskKeepsLengthAndPrefix ==
  lastOp.op = "maskApiKey" =>
    LET s == lastOp.key
        m == lastOp.res[1]
        n == IF Len(s) < 15 THEN Len(s) ELSE 15
    IN  /\ Len(m) = Len(s)
        /\ \A i \in 1..n : m[i] = s[i]
        /\ \A i \in (n + 1)..Len(m) : m[i] = "*"
        /\ SubSeq(m, 1, n) = extractApiKeyPrefix(s)

\* a string longer than the prefix was masked, one with a star inside its prefix
C28_Witness ==
  /\ lastOp.op = "maskApiKey"
  /\ Len(lastOp.key) = PrefixLength + 2
  /\ lastOp.key[3] = "*"
  /\ lastOp.res[1][PrefixLength + 1] = "*"
  /\ lastOp.res[1][PrefixLength] # "*"

====
